---- MODULE Spec2Model ----
(***************************************************************************)
(* A model of the fitness tracker: the gym-visit toggle of the mutation    *)
(* layer against the store (SpecVisits), the chat endpoint serving any     *)
(* caller (SpecEndpoint), the streamed chat exchange between the chat UI   *)
(* and the chat endpoint (SpecChat), the weekly and the recent query       *)
(* (SpecWeek, SpecRecent), the suggestion extractor (SpecParse), the       *)
(* workout mutations (SpecMutations), and the attendance grid and workout  *)
(* list of an open page (SpecPage).                                        *)
(***************************************************************************)
EXTENDS Integers, Sequences, FiniteSets, TLC

VARIABLES
    \* ---- gym_visits table and the toggleGymVisit calls in flight
    uniqueDate,   \* whether the store's schema has a unique constraint on visited_date
    rows,         \* the gym_visits table: a set of [id, visited_date]
    call,         \* per caller: the toggleGymVisit invocation it is running
    last,         \* history: the most recently started toggleGymVisit call
    prev,         \* history: the call started before it
    \* ---- chat endpoint (POST /api/chat), one request at a time
    ep,           \* the request being handled: position, body, response status
    modelIn,      \* history: the chunks the model stream delivered to this request
    out,          \* the byte chunks enqueued on the response's ReadableStream
    wire,         \* bytes enqueued for the chat UI and not yet read by it
    uiChunks,     \* how many model chunks requests of the chat UI were delivered so far
    \* ---- chat UI (AIChat)
    messages,     \* the turn list: a sequence of [id, role, content]
    input,        \* the text in the textarea
    isLoading,    \* whether a chat request is in flight
    ui,           \* the handleSubmit invocation: position and its local constants
    recv,         \* history: the byte chunks reader.read() delivered in this exchange
    now,          \* the clock Date.now() reads
    \* ---- query layer
    calc,         \* a call of a query or of a pure function: its inputs and its result
    \* ---- workouts table and the workout mutations
    workouts,     \* the workouts table: a set of [id]
    mut,          \* the addWorkout, addWorkouts or deleteWorkout call being made
    \* ---- page: WeeklyAttendance and WorkoutList
    togglingDate, \* WeeklyAttendance: the date being toggled, or NoDate
    visitedDates, \* WeeklyAttendance: the dates shown as visited
    pend,         \* the callers whose toggleGymVisit a handleToggle is awaiting
    deletingId,   \* WorkoutList: the id being deleted, or NoRow
    pendDel,      \* per workout id: the handleDelete invocations awaiting deleteWorkout
    ansDel,       \* per workout id: those of them whose delete the store has answered
    okDel,        \* per workout id: those of the answered whose delete did not fail
    listed,       \* WorkoutList: the ids of the rows of the `workouts` prop
    stale,        \* a handler has resumed from an action that revalidated "/", and Home has not run since
    clicks,       \* how many cells and buttons were clicked so far
    adding,       \* WorkoutForm and AIChat: the addWorkout calls they are awaiting
    render        \* Home: the rows getWorkouts() returned to a render not yet mounted

visitVars == <<uniqueDate, rows, call, last, prev>>

chatVars == <<ep, modelIn, out, wire, uiChunks, messages, input, isLoading, ui, recv, now>>

\* the variables of the components other than the toggle and the chat
queryVars == <<calc>>

mutVars == <<workouts, mut>>

pageVars == <<togglingDate, visitedDates, pend, deletingId, pendDel, ansDel, okDel,
              listed, stale, clicks, adding, render>>

restVars == <<queryVars, mutVars, pageVars>>

vars == <<uniqueDate, rows, call, last, prev,
          ep, modelIn, out, wire, uiChunks, messages, input, isLoading, ui, recv,
          now, calc, workouts, mut,
          togglingDate, visitedDates, pend, deletingId, pendDel, ansDel, okDel,
          listed, stale, clicks, adding, render>>

\* togglingDate when no date is being toggled (null)
NoDate == "null"

\* deletingId when no workout is being deleted (null)
NoId == 0

\* no query is being evaluated
NoCalc == [fn |-> "none"]

\* the `error` of a store call that succeeded (null), and the messages of
\* the errors a store call may answer with
NoError == "none"
CallFailed == "store call failed"
Duplicate == "duplicate key value violates unique constraint"

\* no workout mutation is being made
IdleMut == [fn |-> "none", pc |-> "idle", arg |-> <<>>, stored |-> NoError,
            thrown |-> NoError, revalidated |-> FALSE]

\* no addWorkout of the page is in flight: the form is not loading; of the
\* quick adds none awaits the store (sent) and none awaits its handler (ok,
\* failed); made counts the rows inserted since the page was loaded
IdleAdding == [isLoading |-> FALSE, form |-> "idle",
               sent |-> 0, ok |-> 0, failed |-> 0, made |-> 0]

\* Home is not being rendered
NoRender == [on |-> FALSE, ids |-> {}]

\* mutant: revalidatePath('/') is called before the error is looked at
SettleRevalidatesFirst(error) ==
    IF error # NoError
    THEN [pc |-> "thrown", thrown |-> error, revalidated |-> TRUE]
    ELSE [pc |-> "done", thrown |-> NoError, revalidated |-> TRUE]

\* what every mutation does with its write's `error`:
\* if (error) { throw new Error(error.message) }  revalidatePath('/')
Settle(error) ==
    IF error # NoError
    THEN [pc |-> "thrown", thrown |-> error, revalidated |-> FALSE]
    ELSE [pc |-> "done", thrown |-> NoError, revalidated |-> TRUE]

----------------------------------------------------------------------------
(* Bounds *)

\* the table holds at most this many rows (inserts beyond it are not explored)
MaxRows == 3

\* the callers that may run toggleGymVisit concurrently, and the dates they use
Callers == {"c1", "c2"}
DateSet == {"d1", "d2"}

\* the lookup's `existing` when it yields no row object (data: null)
NoRow == 0

----------------------------------------------------------------------------
(* The store collaborator, as toggleGymVisit uses it *)

Matching(t, d) == {r \in t : r.visited_date = d}

DatesOf(t) == {r.visited_date : r \in t}

\* mutant: with several matching rows the lookup answers with one of them
SingleLookupAnyRow(t, d, fails) ==
    IF ~fails /\ Matching(t, d) # {}
    THEN (CHOOSE r \in Matching(t, d) : TRUE).id
    ELSE NoRow

\* .select('id').eq('visited_date', date).single(): the row when exactly one
\* row matches; otherwise (no row, several rows, or a failed call) data is null.
\* toggleGymVisit reads only `data`, never the lookup's `error`.
SingleLookup(t, d, fails) ==
    IF ~fails /\ Cardinality(Matching(t, d)) = 1
    THEN (CHOOSE r \in Matching(t, d) : TRUE).id
    ELSE NoRow

\* a store-assigned identifier no row and no caller holds
FreshId(t, c) ==
    CHOOSE i \in 1..(MaxRows + Cardinality(Callers) + 1) :
        /\ i \notin {r.id : r \in t}
        /\ i \notin {c[p].existing : p \in Callers}

\* mutant: the table accepts a second row for a date despite the constraint
InsertAcceptedNoConstraint(t, d, uniq, fails) == ~fails

\* .insert({ visited_date: date }): rejected by a failed call, and by the
\* unique constraint when the schema has one and the date already has a row
InsertAccepted(t, d, uniq, fails) ==
    /\ ~fails
    /\ ~(uniq /\ Matching(t, d) # {})

\* .delete().eq('id', id): removes the row with that id, if it is still there
DeleteRow(t, id) == {r \in t : r.id # id}

----------------------------------------------------------------------------
(* toggleGymVisit(date) *)

\* mutant: the toggle inserts whatever the lookup returned
WriteOpAlwaysInsert(existing, d) == [kind |-> "insert", id |-> NoRow, date |-> d]

\* if (existing) delete by existing.id, else insert a row for the date
WriteOp(existing, d) ==
    IF existing # NoRow
    THEN [kind |-> "delete", id |-> existing, date |-> d]
    ELSE [kind |-> "insert", id |-> NoRow, date |-> d]

NoOp == [kind |-> "none", id |-> NoRow, date |-> "d1"]

IdleCall == [pc |-> "idle", date |-> "d1", existing |-> NoRow, op |-> NoOp,
             stored |-> NoError, thrown |-> NoError, revalidated |-> FALSE]

NoCall == [caller |-> "c1", date |-> "d1", pre |-> {}, solo |-> FALSE,
           nofail |-> FALSE, started |-> FALSE]

InFlight(p) == call[p].pc \in {"select", "write"}

Finished(p) == call[p].pc \in {"done", "thrown"}

\* a store call of caller p failed: noted on the history record of p's call
NoteFail(h, p, fails) ==
    IF fails /\ h.caller = p THEN [h EXCEPT !.nofail = FALSE] ELSE h

\* the call is made: the lookup is issued and awaited
ToggleStart(p, d) ==
    /\ ~InFlight(p)
    /\ call' = [call EXCEPT ![p] = [pc |-> "select", date |-> d,
                                    existing |-> NoRow, op |-> NoOp,
                                    stored |-> NoError, thrown |-> NoError,
                                    revalidated |-> FALSE]]
    /\ LET others == \E q \in Callers \ {p} : InFlight(q) IN
       /\ prev' = [last EXCEPT !.solo = last.solo /\ ~others]
       /\ last' = [caller |-> p, date |-> d, pre |-> rows, solo |-> ~others,
                   nofail |-> TRUE, started |-> TRUE]
    /\ UNCHANGED <<uniqueDate, rows>>
    /\ UNCHANGED <<chatVars, queryVars, mutVars>>

\* the lookup answers; the code branches on `existing` and issues its write
ToggleSelect(p, fails) ==
    /\ call[p].pc = "select"
    /\ LET existing == SingleLookup(rows, call[p].date, fails) IN
       call' = [call EXCEPT ![p].pc = "write",
                            ![p].existing = existing,
                            ![p].op = WriteOp(existing, call[p].date)]
    /\ last' = NoteFail(last, p, fails)
    /\ prev' = NoteFail(prev, p, fails)
    /\ UNCHANGED <<uniqueDate, rows>>
    /\ UNCHANGED <<chatVars, queryVars, mutVars>>

\* the write answers: on error the call throws, otherwise revalidatePath('/')
ToggleWrite(p, fails) ==
    /\ call[p].pc = "write"
    /\ LET op == call[p].op
           ok == IF op.kind = "delete"
                 THEN ~fails
                 ELSE InsertAccepted(rows, op.date, uniqueDate, fails)
       IN
       /\ op.kind = "insert" /\ ok => Cardinality(rows) < MaxRows
       /\ rows' = IF ~ok THEN rows
                  ELSE IF op.kind = "delete" THEN DeleteRow(rows, op.id)
                  ELSE rows \cup {[id |-> FreshId(rows, call),
                                   visited_date |-> op.date]}
       /\ LET error == IF ok THEN NoError
                         ELSE IF fails THEN CallFailed ELSE Duplicate
          IN call' = [call EXCEPT ![p].pc = Settle(error).pc,
                                  ![p].stored = error,
                                  ![p].thrown = Settle(error).thrown,
                                  ![p].revalidated = Settle(error).revalidated]
       /\ last' = NoteFail(last, p, fails)
       /\ prev' = NoteFail(prev, p, fails)
    /\ UNCHANGED uniqueDate
    /\ UNCHANGED <<chatVars, queryVars, mutVars>>

VisitsNext ==
    \/ \E p \in Callers, d \in DateSet : ToggleStart(p, d) /\ UNCHANGED pageVars
    \/ \E p \in Callers, fails \in BOOLEAN :
          ToggleSelect(p, fails) /\ UNCHANGED pageVars
    \/ \E p \in Callers, fails \in BOOLEAN :
          ToggleWrite(p, fails) /\ UNCHANGED pageVars

----------------------------------------------------------------------------
(* Claims about toggleGymVisit *)

\* the two most recent calls were for one date, ran one after the other with
\* no other caller in flight meanwhile and no failed store call, and are over
CleanPair ==
    /\ prev.started /\ last.started
    /\ prev.date = last.date
    /\ prev.solo /\ last.solo
    /\ prev.nofail /\ last.nofail
    /\ call[last.caller].pc = "done"

\* C1: two toggleGymVisit(date) calls run one after the other, with no other
\* caller and no failing store call, leave the set of dates that have a
\* gym-visit row exactly as it was before the first call.
C1_TogglePairRestoresDates ==
    CleanPair => DatesOf(rows) = DatesOf(prev.pre)

C1_Witness_Attended ==
    /\ CleanPair
    /\ prev.date \in DatesOf(prev.pre)
    /\ DatesOf(rows) = DatesOf(prev.pre)

\* C2: with a unique constraint on the date, no state holds two gym-visit
\* rows for one date (without it, two interleaved toggles that both read
\* "absent" both insert: C2_Witness_RaceDuplicates).
C2_UniqueConstraintNoDuplicates ==
    uniqueDate => \A d \in DateSet : Cardinality(Matching(rows, d)) <= 1

C2_Witness_RaceDuplicates ==
    /\ ~uniqueDate
    /\ prev.started /\ last.started /\ prev.caller # last.caller
    /\ prev.date = last.date
    /\ ~last.solo /\ prev.nofail /\ last.nofail
    /\ prev.pre = {} /\ last.pre = {}
    /\ \A p \in Callers : call[p].pc = "done" /\ call[p].existing = NoRow
                          /\ call[p].op.kind = "insert"
    /\ Cardinality(Matching(rows, last.date)) = 2

\* C3: a single toggleGymVisit(date) on a store holding at most one row for
\* the date issues exactly one write: a delete of the existing row when the
\* date has a row, otherwise an insert for the date; rows of other dates are
\* left unchanged.
C3_SingleToggleDeletesOrInserts ==
    LET c == call[last.caller]
        m == Matching(last.pre, last.date)
    IN
    (last.started /\ last.solo /\ Finished(last.caller) /\ Cardinality(m) <= 1)
    => /\ m # {} => \E r \in m : c.op = [kind |-> "delete", id |-> r.id,
                                          date |-> last.date]
       /\ m = {} => c.op = [kind |-> "insert", id |-> NoRow, date |-> last.date]
       /\ \A d \in DateSet \ {last.date} : Matching(rows, d) = Matching(last.pre, d)

----------------------------------------------------------------------------
(* Text and bytes: TextEncoder.encode / TextDecoder.decode *)

\* the characters of the model: "a" is one UTF-8 byte (61), "E" stands for
\* U+00E9, two UTF-8 bytes (C3 A9); "FFFD" is the replacement character the
\* decoder puts out for a malformed or cut-off byte sequence
Chars == {"a", "E"}

RECURSIVE Flatten(_)
Flatten(ss) == IF ss = <<>> THEN <<>> ELSE Head(ss) \o Flatten(Tail(ss))

EncodeChar(c) == IF c = "a" THEN <<"61">> ELSE <<"C3", "A9">>

\* encoder.encode(text): the UTF-8 bytes of the text
RECURSIVE Encode(_)
Encode(text) ==
    IF text = <<>> THEN <<>> ELSE EncodeChar(Head(text)) \o Encode(Tail(text))

\* decoder.decode(value), called without { stream: true }: every call decodes
\* its chunk on its own, so a sequence cut off by the chunk's end, or a
\* continuation byte at its start, comes out as U+FFFD
RECURSIVE Decode(_)
Decode(bytes) ==
    IF bytes = <<>> THEN <<>>
    ELSE IF Head(bytes) = "61" THEN <<"a">> \o Decode(Tail(bytes))
    ELSE IF Head(bytes) = "C3" /\ Len(bytes) >= 2 /\ bytes[2] = "A9"
         THEN <<"E">> \o Decode(Tail(Tail(bytes)))
    ELSE <<"FFFD">> \o Decode(Tail(bytes))

----------------------------------------------------------------------------
(* Chat endpoint: POST(req) *)

\* the model stream delivers at most MaxChunks chunks to one request, and a
\* run delivers at most MaxUiChunks chunks to the requests of the chat UI
MaxChunks == 2
MaxUiChunks == 1

\* a request of another caller carries a history of at most MaxHistory turns
MaxHistory == 2

\* what a model chunk carries at choices[0].delta.content: nothing, the empty
\* string, or text
Payloads ==
    {[has |-> FALSE, text |-> <<>>], [has |-> TRUE, text |-> <<>>],
     [has |-> TRUE, text |-> <<"a">>], [has |-> TRUE, text |-> <<"E">>],
     [has |-> TRUE, text |-> <<"a", "E">>]}

\* chunk.choices[0]?.delta?.content || ''
TextOf(p) == IF p.has THEN p.text ELSE <<>>

\* the values `message` can take in a request body
\* (text is the string's characters; the empty string is falsy)
MessageValues ==
    {[type |-> "undefined", truthy |-> FALSE, text |-> <<>>],
     [type |-> "null", truthy |-> FALSE, text |-> <<>>],
     [type |-> "number", truthy |-> FALSE, text |-> <<>>],
     [type |-> "number", truthy |-> TRUE, text |-> <<>>],
     [type |-> "string", truthy |-> FALSE, text |-> <<>>],
     [type |-> "string", truthy |-> TRUE, text |-> <<"h">>],
     [type |-> "object", truthy |-> TRUE, text |-> <<>>]}

NoMessage == [type |-> "undefined", truthy |-> FALSE, text |-> <<>>]

\* the turns a history may hold (the endpoint reads role and content only)
HistoryTurns ==
    {[id |-> 0, role |-> "user", content |-> <<"h">>],
     [id |-> 0, role |-> "assistant", content |-> <<"a">>]}

NoHistory == [kind |-> "missing", turns |-> <<>>]

\* the values `history` can take in a request body: absent, null, a value
\* that is not an array, or an array of turns
HistoryValues ==
    {NoHistory, [kind |-> "null", turns |-> <<>>], [kind |-> "object", turns |-> <<>>]}
    \cup {[kind |-> "array", turns |-> h] :
            h \in UNION {[1..n -> HistoryTurns] : n \in 0..MaxHistory}}

NoBody == [json |-> "invalid", message |-> NoMessage, history |-> NoHistory]

\* request bodies: text that is not JSON, the JSON value null, or a JSON
\* value whose `message` is one of MessageValues and whose `history` is one
\* of HistoryValues
Bodies ==
    {NoBody, [json |-> "null", message |-> NoMessage, history |-> NoHistory]}
    \cup {[json |-> "value", message |-> m, history |-> h] :
            m \in MessageValues, h \in HistoryValues}

\* mutant: the history is taken after the user turn was appended
UiBodyWithNewTurn(text, history) ==
    [json |-> "value",
     message |-> [type |-> "string", truthy |-> TRUE, text |-> text],
     history |-> [kind |-> "array",
                  turns |-> Append(history, [id |-> 0, role |-> "user",
                                             content |-> text])]]

\* JSON.stringify({ message: userMessage.content, history: messages }): the
\* message is the trimmed, non-empty input, the history the turn list the
\* handler was rendered with
UiBody(text, history) ==
    [json |-> "value",
     message |-> [type |-> "string", truthy |-> TRUE, text |-> text],
     history |-> [kind |-> "array", turns |-> history]]

\* the workouts getRecentWorkouts(14) may answer with
RecentLists == {<<>>, <<"w1">>}

\* formatWorkoutsForContext(workouts): a fixed sentence when there are none,
\* otherwise a heading and one line per workout, in order
FormatWorkoutsForContext(ws) ==
    IF ws = <<>>
    THEN <<"The user hasn't logged any workouts in the past 2 weeks.">>
    ELSE <<"Recent workouts (last 2 weeks):">> \o [i \in 1..Len(ws) |-> ws[i]]

\* `${SYSTEM_PROMPT}\n\n${workoutContext}`
SystemPromptWith(ws) == <<"SYSTEM_PROMPT">> \o FormatWorkoutsForContext(ws)

\* (history || []).map(...) throws for a truthy value that has no map()
HistoryThrows(history) == history.kind = "object"

\* history || []
HistoryOrEmpty(history) ==
    IF history.kind = "array" THEN history.turns ELSE <<>>

\* mutant: the history is left out of the message list
BuildMessagesNoHistory(systemPrompt, history, message) ==
    <<[role |-> "system", content |-> systemPrompt],
      [role |-> "user", content |-> message]>>

\* the `messages` array given to groq.chat.completions.create
BuildMessages(systemPrompt, history, message) ==
    LET h == HistoryOrEmpty(history) IN
    <<[role |-> "system", content |-> systemPrompt]>>
    \o [i \in 1..Len(h) |-> [role |-> h[i].role, content |-> h[i].content]]
    \o <<[role |-> "user", content |-> message]>>

\* const { message, history } = await req.json() throws for a body that is
\* not JSON, and for null (null cannot be destructured)
JsonThrows(body) == body.json \in {"invalid", "null"}

\* !message || typeof message !== 'string'
MessageRejected(m) == ~m.truthy \/ m.type # "string"

BadRequest == 400
ServerError == 500
Ok == 200

IdleEp == [pc |-> "idle", src |-> "ext", body |-> NoBody, status |-> 0,
           queried |-> FALSE, invoked |-> FALSE, opened |-> FALSE,
           closes |-> 0, failedAt |-> "none", recent |-> <<>>, llm |-> <<>>]

\* the endpoint of the model handles one request at a time
EpFree == ep.pc \in {"idle", "responded", "ended", "errored"}

\* the catch block: Response.json({error}, {status: 500})
Caught(at) == [ep EXCEPT !.pc = "responded", !.status = ServerError,
                         !.failedAt = at]

\* mutant: pieces are put in front of the queue
EnqueueFront(q, piece) == <<piece>> \o q

\* controller.enqueue(piece)
Enqueue(q, piece) == Append(q, piece)

\* a request arrives: POST is called and awaits req.json()
EpReceive(src, body) ==
    /\ EpFree
    /\ IF src = "ui"
       THEN ui.pc = "fetch" /\ ~ui.sent /\ body = ui.body
       ELSE ~(ui.pc # "idle" /\ ui.sent)
    /\ ep' = [IdleEp EXCEPT !.pc = "parse", !.src = src, !.body = body]
    /\ ui' = IF src = "ui" THEN [ui EXCEPT !.sent = TRUE] ELSE ui
    /\ modelIn' = <<>> /\ out' = <<>> /\ wire' = <<>>
    /\ UNCHANGED <<uiChunks, messages, input, isLoading, recv, now>>
    /\ UNCHANGED <<visitVars, restVars>>

\* the body is read: a throw is caught (500), a rejected message is answered
\* 400, otherwise getRecentWorkouts(14) is called and awaited
EpParse ==
    /\ ep.pc = "parse"
    /\ ep' = IF JsonThrows(ep.body) THEN Caught("parse")
             ELSE IF MessageRejected(ep.body.message)
                  THEN [ep EXCEPT !.pc = "responded", !.status = BadRequest]
             ELSE [ep EXCEPT !.pc = "context", !.queried = TRUE]
    /\ UNCHANGED <<modelIn, out, wire, uiChunks, messages, input, isLoading, ui, recv, now>>
    /\ UNCHANGED <<visitVars, restVars>>

\* mutant: a failed context fetch is swallowed and the model is called anyway
EpContextSwallow(fails, ws) ==
    /\ ep.pc = "context"
    /\ ep' = [ep EXCEPT !.pc = "invoke", !.invoked = TRUE,
                        !.failedAt = IF fails THEN "context" ELSE "none"]
    /\ UNCHANGED <<modelIn, out, wire, uiChunks, messages, input, isLoading, ui, recv, now>>
    /\ UNCHANGED <<visitVars, restVars>>

\* getRecentWorkouts answers: a throw is caught (500); otherwise the message
\* list is built from the workouts ws it answered with (a throw of the
\* history's map is caught, 500) and groq.chat.completions.create is called
\* with the list and awaited
EpContext(fails, ws) ==
    /\ ep.pc = "context"
    /\ ep' = IF fails THEN Caught("context")
             ELSE IF HistoryThrows(ep.body.history) THEN Caught("build")
             ELSE [ep EXCEPT !.pc = "invoke", !.invoked = TRUE, !.recent = ws,
                             !.llm = BuildMessages(SystemPromptWith(ws),
                                                   ep.body.history,
                                                   ep.body.message.text)]
    /\ UNCHANGED <<modelIn, out, wire, uiChunks, messages, input, isLoading, ui, recv, now>>
    /\ UNCHANGED <<visitVars, restVars>>

\* the model call answers: a throw is caught (500), otherwise the
\* ReadableStream is constructed (start() runs up to its first read of the
\* model stream) and the streaming Response is returned
EpInvoke(fails) ==
    /\ ep.pc = "invoke"
    /\ ep' = IF fails THEN Caught("invoke")
             ELSE [ep EXCEPT !.pc = "streaming", !.opened = TRUE, !.status = Ok]
    /\ UNCHANGED <<modelIn, out, wire, uiChunks, messages, input, isLoading, ui, recv, now>>
    /\ UNCHANGED <<visitVars, restVars>>

\* one turn of `for await (const chunk of stream)`: the chunk's text, when
\* not empty, is encoded and enqueued; then the next chunk is awaited
EpStreamChunk(p) ==
    /\ ep.pc = "streaming"
    /\ Len(modelIn) < MaxChunks
    /\ ep.src = "ui" => uiChunks < MaxUiChunks
    /\ uiChunks' = IF ep.src = "ui" THEN uiChunks + 1 ELSE uiChunks
    /\ modelIn' = Append(modelIn, p)
    /\ LET text == TextOf(p) IN
       /\ out' = IF text # <<>> THEN Enqueue(out, Encode(text)) ELSE out
       /\ wire' = IF text # <<>> /\ ep.src = "ui"
                  THEN wire \o Encode(text) ELSE wire
    /\ UNCHANGED <<ep, messages, input, isLoading, ui, recv, now>>
    /\ UNCHANGED <<visitVars, restVars>>

\* mutant: the loop ends without controller.close()
EpStreamDoneNoClose ==
    /\ ep.pc = "streaming"
    /\ ep' = [ep EXCEPT !.pc = "ended"]
    /\ UNCHANGED <<modelIn, out, wire, uiChunks, messages, input, isLoading, ui, recv, now>>
    /\ UNCHANGED <<visitVars, restVars>>

\* the model stream signals completion: the loop ends, controller.close()
EpStreamDone ==
    /\ ep.pc = "streaming"
    /\ ep' = [ep EXCEPT !.pc = "ended", !.closes = ep.closes + 1]
    /\ UNCHANGED <<modelIn, out, wire, uiChunks, messages, input, isLoading, ui, recv, now>>
    /\ UNCHANGED <<visitVars, restVars>>

\* mutant: a failure of the model stream reaches POST's catch block
EpStreamFailCaught ==
    /\ ep.pc = "streaming"
    /\ ep' = [Caught("stream") EXCEPT !.pc = "errored"]
    /\ UNCHANGED <<modelIn, out, wire, uiChunks, messages, input, isLoading, ui, recv, now>>
    /\ UNCHANGED <<visitVars, restVars>>

\* the model stream throws inside start(): POST has returned, its try/catch
\* is over; start()'s promise rejects and the ReadableStream is errored
EpStreamFail ==
    /\ ep.pc = "streaming"
    /\ ep' = [ep EXCEPT !.pc = "errored", !.failedAt = "stream"]
    /\ UNCHANGED <<modelIn, out, wire, uiChunks, messages, input, isLoading, ui, recv, now>>
    /\ UNCHANGED <<visitVars, restVars>>

----------------------------------------------------------------------------
(* Chat UI: AIChat.handleSubmit *)

\* at most this many submits are accepted, and the clock reads at most MaxClock
MaxSubmits == 2
MaxClock == 1

\* what the user may type: " " is white space, "h" any other character
Inputs == {<<>>, <<" ">>, <<" ", "h", " ">>}

RECURSIVE TrimStart(_)
TrimStart(s) ==
    IF s # <<>> /\ Head(s) = " " THEN TrimStart(Tail(s)) ELSE s

RECURSIVE TrimEnd(_)
TrimEnd(s) ==
    IF s # <<>> /\ s[Len(s)] = " " THEN TrimEnd(SubSeq(s, 1, Len(s) - 1)) ELSE s

\* input.trim()
Trim(s) == TrimEnd(TrimStart(s))

\* 'Sorry, I encountered an error. Please try again.'
Apology == <<"Sorry, I encountered an error. Please try again.">>

\* (running counts the handleSubmit invocations that have not finished;
\* declined notes a submit that was ignored because a request is in flight)
IdleUi == [pc |-> "idle", assistantId |-> 0, ph |-> 0, sent |-> FALSE,
           outcome |-> "none", body |-> NoBody, running |-> 0,
           declined |-> FALSE]

\* prev.map(msg => msg.id === assistantId
\*                   ? { ...msg, content: msg.content + text } : msg)
AppendText(msgs, id, text) ==
    [i \in 1..Len(msgs) |->
        IF msgs[i].id = id THEN [msgs[i] EXCEPT !.content = @ \o text]
        ELSE msgs[i]]

\* mutant: the apology is added after the text streamed so far
SetApologyAppending(msgs, id) ==
    [i \in 1..Len(msgs) |->
        IF msgs[i].id = id THEN [msgs[i] EXCEPT !.content = @ \o Apology]
        ELSE msgs[i]]

\* prev.map(msg => msg.id === assistantId
\*                   ? { ...msg, content: 'Sorry, ...' } : msg)
SetApology(msgs, id) ==
    [i \in 1..Len(msgs) |->
        IF msgs[i].id = id THEN [msgs[i] EXCEPT !.content = Apology]
        ELSE msgs[i]]

\* onChange: setInput(e.target.value); the textarea is disabled while loading
TypeInput(v) ==
    /\ ~isLoading
    /\ input' = v
    /\ UNCHANGED <<ep, modelIn, out, wire, uiChunks, messages, isLoading, ui, recv, now>>
    /\ UNCHANGED <<visitVars, restVars>>

\* mutant: the placeholder is appended before the user turn
NewTurnsPlaceholderFirst(t1, assistantId, text) ==
    <<[id |-> assistantId, role |-> "assistant", content |-> <<>>],
      [id |-> t1, role |-> "user", content |-> text]>>

\* userMessage and the assistant placeholder, in the order of the two
\* setMessages(prev => [...prev, m]) calls
NewTurns(t1, assistantId, text) ==
    <<[id |-> t1, role |-> "user", content |-> text],
      [id |-> assistantId, role |-> "assistant", content |-> <<>>]>>

\* setIsLoading(true)
LoadingAfterSubmit == TRUE

\* handleSubmit up to `await fetch(...)`: nothing happens for an empty input
\* or while loading; otherwise the user turn and the empty assistant
\* placeholder are appended and the request is issued. `now` is the clock's
\* last reading: the first Date.now() reads t1 = now + d0 (d0 the time passed
\* since), the second reads t2 = t1 + dt.
HandleSubmit(d0, dt) ==
    /\ now + d0 + dt <= MaxClock
    /\ Len(messages) < 2 * MaxSubmits \/ Trim(input) = <<>> \/ isLoading
    /\ IF Trim(input) = <<>> \/ isLoading
       THEN /\ ui' = [ui EXCEPT !.declined = @ \/ isLoading]
            /\ UNCHANGED <<messages, input, isLoading, recv, now>>
       ELSE LET t1 == now + d0
                t2 == t1 + dt
                assistantId == t2 + 1
            IN
            /\ messages' = messages \o NewTurns(t1, assistantId, Trim(input))
            /\ input' = <<>>
            /\ isLoading' = LoadingAfterSubmit
            /\ now' = t2
            /\ ui' = [pc |-> "fetch", assistantId |-> assistantId,
                      ph |-> Len(messages) + 2, sent |-> FALSE,
                      outcome |-> "none",
                      body |-> UiBody(Trim(input), messages),
                      running |-> ui.running + 1, declined |-> FALSE]
            /\ recv' = <<>>
    /\ UNCHANGED <<ep, modelIn, out, wire, uiChunks>>
    /\ UNCHANGED <<visitVars, restVars>>

\* mutant: the error path leaves the loading flag set
SubmitFailsStaysLoading ==
    /\ messages' = SetApology(messages, ui.assistantId)
    /\ isLoading' = isLoading
    /\ ui' = [ui EXCEPT !.pc = "idle", !.outcome = "error",
                        !.running = @ - 1, !.declined = FALSE]

\* catch: the apology is written to the placeholder; finally: setIsLoading(false)
SubmitFails ==
    /\ messages' = SetApology(messages, ui.assistantId)
    /\ isLoading' = FALSE
    /\ ui' = [ui EXCEPT !.pc = "idle", !.outcome = "error",
                        !.running = @ - 1, !.declined = FALSE]

\* fetch resolves with the endpoint's response: !response.ok throws,
\* otherwise the body's reader is taken and the first read awaited
FetchResolve ==
    /\ ui.pc = "fetch" /\ ui.sent
    /\ ep.src = "ui" /\ ep.status # 0
    /\ IF ep.status = Ok
       THEN /\ ui' = [ui EXCEPT !.pc = "read"]
            /\ UNCHANGED <<messages, isLoading>>
       ELSE SubmitFails
    /\ UNCHANGED <<ep, modelIn, out, wire, uiChunks, input, recv, now>>
    /\ UNCHANGED <<visitVars, restVars>>

\* fetch rejects (the request or the connection failed)
FetchReject ==
    /\ ui.pc = "fetch"
    /\ SubmitFails
    /\ UNCHANGED <<ep, modelIn, out, wire, uiChunks, input, recv, now>>
    /\ UNCHANGED <<visitVars, restVars>>

\* reader.read() delivers a chunk: the next k bytes of the body, however the
\* endpoint had cut them; the chunk is decoded and appended to the placeholder
ReadChunk(k) ==
    /\ ui.pc = "read"
    /\ k \in 1..Len(wire)
    /\ LET value == SubSeq(wire, 1, k) IN
       /\ messages' = AppendText(messages, ui.assistantId, Decode(value))
       /\ recv' = Append(recv, value)
    /\ wire' = SubSeq(wire, k + 1, Len(wire))
    /\ UNCHANGED <<ep, modelIn, out, uiChunks, input, isLoading, ui, now>>
    /\ UNCHANGED <<visitVars, restVars>>

\* reader.read() reports done: the loop breaks; finally: setIsLoading(false)
ReadDone ==
    /\ ui.pc = "read"
    /\ wire = <<>> /\ ep.pc = "ended"
    /\ isLoading' = FALSE
    /\ ui' = [ui EXCEPT !.pc = "idle", !.outcome = "ok", !.running = @ - 1,
                        !.declined = FALSE]
    /\ UNCHANGED <<ep, modelIn, out, wire, uiChunks, messages, input, recv, now>>
    /\ UNCHANGED <<visitVars, restVars>>

\* reader.read() rejects (the endpoint's stream was errored, or the
\* connection broke)
ReadReject ==
    /\ ui.pc = "read"
    /\ SubmitFails
    /\ UNCHANGED <<ep, modelIn, out, wire, uiChunks, input, recv, now>>
    /\ UNCHANGED <<visitVars, restVars>>

----------------------------------------------------------------------------
(* Specifications *)

\* the store's schema may or may not constrain visited_date to be unique; the
\* table starts empty, no call is running; the chat is in its initial state
VisitsInit ==
    /\ uniqueDate \in BOOLEAN
    /\ rows = {}
    /\ call = [p \in Callers |-> IdleCall]
    /\ last = NoCall
    /\ prev = NoCall
    /\ ep = IdleEp
    /\ modelIn = <<>>
    /\ out = <<>>
    /\ wire = <<>>
    /\ uiChunks = 0
    /\ messages = <<>>
    /\ input = <<>>
    /\ isLoading = FALSE
    /\ ui = IdleUi
    /\ recv = <<>>
    /\ now = 0
    /\ workouts = {}
    /\ mut = IdleMut
    /\ togglingDate = NoDate
    /\ visitedDates = {}
    /\ pend = {}
    /\ deletingId = NoId
    /\ pendDel = [i \in {} |-> 0]
    /\ ansDel = [i \in {} |-> 0]
    /\ okDel = [i \in {} |-> 0]
    /\ listed = {}
    /\ stale = FALSE
    /\ clicks = 0
    /\ adding = IdleAdding
    /\ render = NoRender
    /\ calc = NoCalc

\* the chat's initial state (useState initial values, no request handled);
\* the store is empty and stays unused
ChatInit ==
    /\ uniqueDate = FALSE
    /\ rows = {}
    /\ call = [p \in Callers |-> IdleCall]
    /\ last = NoCall
    /\ prev = NoCall
    /\ ep = IdleEp
    /\ modelIn = <<>>
    /\ out = <<>>
    /\ wire = <<>>
    /\ uiChunks = 0
    /\ messages = <<>>
    /\ input = <<>>
    /\ isLoading = FALSE
    /\ ui = IdleUi
    /\ recv = <<>>
    /\ now = 0
    /\ workouts = {}
    /\ mut = IdleMut
    /\ togglingDate = NoDate
    /\ visitedDates = {}
    /\ pend = {}
    /\ deletingId = NoId
    /\ pendDel = [i \in {} |-> 0]
    /\ ansDel = [i \in {} |-> 0]
    /\ okDel = [i \in {} |-> 0]
    /\ listed = {}
    /\ stale = FALSE
    /\ clicks = 0
    /\ adding = IdleAdding
    /\ render = NoRender
    /\ calc = NoCalc

EndpointNext ==
    \/ \E body \in Bodies : EpReceive("ext", body)
    \/ EpParse
    \/ \E fails \in BOOLEAN, ws \in RecentLists : EpContext(fails, ws)
    \/ \E fails \in BOOLEAN : EpInvoke(fails)
    \/ \E p \in Payloads : EpStreamChunk(p)
    \/ EpStreamDone
    \/ EpStreamFail

ChatNext ==
    \/ EpReceive("ui", ui.body)
    \/ EpParse
    \/ \E fails \in BOOLEAN, ws \in RecentLists : EpContext(fails, ws)
    \/ \E fails \in BOOLEAN : EpInvoke(fails)
    \/ \E p \in Payloads : EpStreamChunk(p)
    \/ EpStreamDone
    \/ EpStreamFail
    \/ \E v \in Inputs : TypeInput(v)
    \/ \E d0 \in {0, 1}, dt \in {0, 1} : HandleSubmit(d0, dt)
    \/ FetchResolve
    \/ FetchReject
    \/ \E k \in 1..(3 * MaxChunks) : ReadChunk(k)
    \/ ReadDone
    \/ ReadReject

\* the gym-visit toggle against the store
SpecVisits == VisitsInit /\ [][VisitsNext]_vars

\* the chat endpoint and the model stream, serving requests of any caller
SpecEndpoint == ChatInit /\ [][EndpointNext]_vars

\* the chat UI, with the chat endpoint and the model stream serving it
SpecChat == ChatInit /\ [][ChatNext]_vars

----------------------------------------------------------------------------
(* Claims about the chat endpoint *)

\* the texts of the model chunks that carry text, in arrival order
RECURSIVE TextPieces(_)
TextPieces(ms) ==
    IF ms = <<>> THEN <<>>
    ELSE (IF TextOf(Head(ms)) # <<>> THEN <<TextOf(Head(ms))>> ELSE <<>>)
         \o TextPieces(Tail(ms))

\* the response stream was given one piece per text the model delivered, in
\* the same order, each piece the bytes of exactly that text
ForwardedExactly ==
    /\ Len(out) = Len(TextPieces(modelIn))
    /\ \A i \in 1..Len(out) : Decode(out[i]) = TextPieces(modelIn)[i]

\* C4: once the endpoint streams, after every chunk it has read from the
\* model the pieces it has forwarded are exactly the text payloads the model
\* delivered so far, in arrival order, one piece per payload, unaltered.
C4_ForwardsEveryPieceInOrder ==
    ep.opened => ForwardedExactly

C4_Witness_TwoPieces ==
    /\ ep.pc = "streaming"
    /\ Len(modelIn) = 2 /\ Len(out) = 2
    /\ out[1] = Encode(<<"a">>) /\ out[2] = Encode(<<"E">>)

\* C5: a request whose message is missing or is not text is answered 400, and
\* neither the recent-workouts query nor the model call is made nor a stream
\* opened for it.
C5_BadMessageAnswered400 ==
    (ep.pc \notin {"idle", "parse"} /\ ep.body.message.type # "string")
    => /\ ep.status = BadRequest
       /\ ~ep.queried /\ ~ep.invoked /\ ~ep.opened

\* C6: a failure of the recent-workouts query or of the model call is
\* answered 500, and no response stream was opened or written for it.
C6_FailureBeforeStreamIs500 ==
    ep.failedAt \in {"context", "invoke"}
    => /\ ep.pc = "responded"
       /\ ep.status = ServerError
       /\ ~ep.opened /\ out = <<>> /\ ep.closes = 0

C6_Witness_InvokeFailed ==
    /\ ep.failedAt = "invoke"
    /\ ep.queried /\ ep.invoked
    /\ ep.status = ServerError

\* C7: when the model stream fails after the streaming response was returned,
\* the response stays the 200 one, the pieces forwarded so far stay forwarded,
\* the stream is not closed, and no 500 is produced.
C7_StreamFailureKeeps200 ==
    ep.failedAt = "stream"
    => /\ ep.pc = "errored"
       /\ ep.status = Ok
       /\ ep.closes = 0
       /\ ForwardedExactly

C7_Witness_FailedAfterPiece ==
    /\ ep.failedAt = "stream"
    /\ Len(out) >= 1
    /\ ep.status = Ok

\* C8: when the model signals completion the endpoint closes its stream
\* exactly once, after the last piece was forwarded, and from then on the
\* request's stream is given nothing more and is not closed again.
C8_ClosesOnceAfterLastPiece ==
    /\ [](/\ ep.closes <= 1
          /\ ep.pc = "ended" => (ep.closes = 1 /\ ForwardedExactly)
          /\ ep.closes = 1 => ep.pc = "ended")
    /\ [][(ep.closes >= 1 /\ ep'.pc # "parse")
          => (out' = out /\ ep'.closes = ep.closes)]_vars

C8_Witness_ClosedAfterPieces ==
    /\ ep.pc = "ended"
    /\ ep.closes = 1
    /\ Len(out) = 2

----------------------------------------------------------------------------
(* Claims about the chat UI *)

\* the placeholder's content is each delivered chunk decoded on its own, in
\* delivery order
RECURSIVE DecodeEach(_)
DecodeEach(chunks) ==
    IF chunks = <<>> THEN <<>>
    ELSE Decode(Head(chunks)) \o DecodeEach(Tail(chunks))

ContentIsChunkwiseDecoding ==
    ui.outcome = "ok" => messages[ui.ph].content = DecodeEach(recv)

\* C9: when the response stream delivered chunks c1..cn and then ended, the
\* placeholder's content is the text of c1..cn concatenated in delivery order.
C9_ContentIsStreamText ==
    ui.outcome = "ok" => messages[ui.ph].content = Decode(Flatten(recv))

\* C10: when the request fails (a non-success response, a rejected fetch or a
\* rejected read, also after chunks were appended), the placeholder's content
\* is the apology and nothing else.
C10_FailureLeavesOnlyApology ==
    ui.outcome = "error" => messages[ui.ph].content = Apology

C10_Witness_FailedAfterChunk ==
    /\ ui.outcome = "error"
    /\ recv # <<>>
    /\ messages[ui.ph].role = "assistant"
    /\ messages[ui.ph].content = Apology

----------------------------------------------------------------------------
(* C11: an accepted chat submit (one that turns isLoading on) makes the turn
   list two turns longer: the turns there before keep their places and their
   contents, the first new turn is the user's with the trimmed input, the
   second the assistant's with empty content; and both are in the list
   before the request is opened: after the step the request has not been
   sent, and whenever it has been sent and not yet answered by the handler
   the two turns are in the list in that order. *)
SubmitAppendsUserThenPlaceholder ==
    (~isLoading /\ isLoading') =>
        /\ Len(messages') = Len(messages) + 2
        /\ SubSeq(messages', 1, Len(messages)) = messages
        /\ messages'[Len(messages) + 1].role = "user"
        /\ messages'[Len(messages) + 1].content = Trim(input)
        /\ messages'[Len(messages) + 2].role = "assistant"
        /\ messages'[Len(messages) + 2].content = <<>>
        /\ ui'.pc = "fetch" /\ ~ui'.sent

TurnsPrecedeRequest ==
    (ui.pc = "fetch" /\ ui.sent) =>
        /\ Len(messages) >= 2
        /\ ui.ph = Len(messages)
        /\ messages[ui.ph - 1].role = "user"
        /\ messages[ui.ph].role = "assistant"

C11_SubmitAppendsTwoTurns ==
    [][SubmitAppendsUserThenPlaceholder]_vars /\ []TurnsPrecedeRequest

\* a second submit was accepted and its request has reached the endpoint
C11_Witness_SecondSubmitSent ==
    Len(messages) = 4 /\ ui.pc = "fetch" /\ ui.sent /\ ep.pc = "parse"

----------------------------------------------------------------------------
(* C12: the message list the endpoint passes to the model is the system
   prompt with the workout context first, then every turn of the request's
   history in the history's order with its role and its content unchanged,
   then the request's message as a user turn last; a request without a
   history gets the system prompt and the user turn only. *)
C12_ModelGetsPromptHistoryMessage ==
    ep.invoked =>
        LET h == ep.body.history
            n == IF h.kind = "array" THEN Len(h.turns) ELSE 0
        IN
        /\ Len(ep.llm) = n + 2
        /\ ep.llm[1] = [role |-> "system",
                        content |-> <<"SYSTEM_PROMPT">>
                                    \o FormatWorkoutsForContext(ep.recent)]
        /\ \A i \in 1..n : /\ ep.llm[i + 1].role = h.turns[i].role
                           /\ ep.llm[i + 1].content = h.turns[i].content
        /\ ep.llm[n + 2] = [role |-> "user", content |-> ep.body.message.text]

\* the model was called for a request with a history of two different turns
\* and with workouts in the context
C12_Witness_TwoTurnHistory ==
    /\ ep.invoked
    /\ ep.body.history.kind = "array"
    /\ Len(ep.body.history.turns) = 2
    /\ ep.body.history.turns[1].role = "assistant"
    /\ ep.body.history.turns[2].role = "user"
    /\ ep.recent # <<>>

----------------------------------------------------------------------------
(* Dates: a Date is an instant, counted in hours from a Monday 00:00 UTC;
   the process reads it in its time zone. A time zone tz is its offset from
   UTC in hours, tz.before up to the instant tz.at of its clock change and
   tz.after from then on (equal in a zone without a clock change). A calendar
   date (the text before the 'T' of an ISO string, a visited_date) is a day
   number, counted from that Monday. *)

\* a zone that keeps one offset
FixedZone(o) == [before |-> o, after |-> o, at |-> 0]

UTC == FixedZone(0)

\* the clock change of the zones that have one: on the Sunday of the second
\* week (day 13), at 02:00 local time
\* clocks go forward, 02:00 at UTC-5 becomes 03:00 at UTC-4 (07:00 UTC)
SpringForward == [before |-> 0 - 5, after |-> 0 - 4, at |-> 13 * 24 + 7]

\* clocks go back, 02:00 at UTC-4 becomes 01:00 at UTC-5 (06:00 UTC)
FallBack == [before |-> 0 - 4, after |-> 0 - 5, at |-> 13 * 24 + 6]

\* the time zones a process may run in: behind, at and ahead of UTC, and
\* behind UTC with a clock change
Zones == {FixedZone(0 - 5), UTC, FixedZone(2), SpringForward, FallBack}

\* the zone's offset at instant t
Offset(tz, t) == IF t >= tz.at THEN tz.after ELSE tz.before

\* the instant of local day `day`, local hour `hour`: a local time that
\* occurs twice (clocks went back) or not at all (clocks went forward) is
\* read with the offset in force before the change
MakeInstant(day, hour, tz) ==
    LET local == day * 24 + hour IN
    IF local - tz.before >= tz.at /\ local - tz.after >= tz.at
    THEN local - tz.after
    ELSE local - tz.before

LocalDay(t, tz) == (t + Offset(tz, t)) \div 24

LocalHour(t, tz) == (t + Offset(tz, t)) % 24

\* getDay(): 0 for Sunday, 1 for Monday, ... 6 for Saturday
GetDay(t, tz) == (LocalDay(t, tz) + 1) % 7

\* d.setDate(d.getDate() + k): the local date moves k days, the local time
\* of day stays
AddDays(t, tz, k) == MakeInstant(LocalDay(t, tz) + k, LocalHour(t, tz), tz)

\* d.setHours(h, ...): the local time of day is set, the local date stays
\* (the minutes, seconds and milliseconds stay within the hour)
SetHours(t, tz, h) == MakeInstant(LocalDay(t, tz), h, tz)

\* d.toISOString().split('T')[0]: the calendar date of the instant in UTC
ToISODate(t) == t \div 24

\* dayOfWeek === 0 ? 6 : dayOfWeek - 1
DaysFromMonday(dayOfWeek) == IF dayOfWeek = 0 THEN 6 ELSE dayOfWeek - 1

\* the two date strings getWeeklyGymVisits filters with
WeekRange(today, tz) ==
    LET monday == SetHours(AddDays(today, tz, 0 - DaysFromMonday(GetDay(today, tz))),
                           tz, 0)
        sunday == SetHours(AddDays(monday, tz, 6), tz, 23)
    IN [from |-> ToISODate(monday), to |-> ToISODate(sunday)]

\* .gte('visited_date', from).lte('visited_date', to)
VisitsBetween(t, from, to) ==
    {r \in t : r.visited_date >= from /\ r.visited_date <= to}

\* the hours of the day a query is made at
Hours == {0, 3, 12, 21, 23}

\* the instants a query is made at: every weekday of the second week
Todays == {MakeInstant(7 + d, h, UTC) : d \in 0..6, h \in Hours}

\* gym_visits tables: one visit on every day from the week before to the
\* week after, or a single visit
VisitDays == 5..15

VisitTables ==
    {{[id |-> d, visited_date |-> d] : d \in VisitDays}}
    \cup {{[id |-> d, visited_date |-> d]} : d \in VisitDays}

\* getWeeklyGymVisits(): the rows in the range, or a throw with the store's
\* error
GetWeeklyGymVisits(fails) ==
    /\ calc.fn = "getWeeklyGymVisits" /\ calc.pc = "ready"
    /\ LET range == WeekRange(calc.today, calc.tz) IN
       calc' = IF fails THEN [calc EXCEPT !.pc = "thrown"]
               ELSE [calc EXCEPT !.pc = "returned",
                                 !.result = VisitsBetween(rows, range.from, range.to)]
    /\ UNCHANGED <<visitVars, chatVars, mutVars, pageVars>>

\* the page is rendered at some instant by a process in some time zone,
\* against some gym_visits table
WeekInit ==
    /\ uniqueDate = FALSE
    /\ rows \in VisitTables
    /\ call = [p \in Callers |-> IdleCall]
    /\ last = NoCall
    /\ prev = NoCall
    /\ ep = IdleEp
    /\ modelIn = <<>>
    /\ out = <<>>
    /\ wire = <<>>
    /\ uiChunks = 0
    /\ messages = <<>>
    /\ input = <<>>
    /\ isLoading = FALSE
    /\ ui = IdleUi
    /\ recv = <<>>
    /\ now = 0
    /\ workouts = {}
    /\ mut = IdleMut
    /\ togglingDate = NoDate
    /\ visitedDates = {}
    /\ pend = {}
    /\ deletingId = NoId
    /\ pendDel = [i \in {} |-> 0]
    /\ ansDel = [i \in {} |-> 0]
    /\ okDel = [i \in {} |-> 0]
    /\ listed = {}
    /\ stale = FALSE
    /\ clicks = 0
    /\ adding = IdleAdding
    /\ render = NoRender
    /\ calc \in [fn : {"getWeeklyGymVisits"}, pc : {"ready"}, today : Todays,
                 tz : Zones, result : {{}}]

WeekNext == \E fails \in BOOLEAN : GetWeeklyGymVisits(fails)

\* the weekly gym-visit query
SpecWeek == WeekInit /\ [][WeekNext]_vars

\* the local calendar day of the Monday of the week that contains instant t
LocalMonday(t, tz) ==
    LocalDay(t, tz) - (LocalDay(t, tz) % 7)

(* C13: getWeeklyGymVisits returns exactly the visits whose date lies in the
   Monday-to-Sunday week of the local calendar that contains the instant of
   the call, on every weekday and at every time of day. *)
C13_WeekIsLocalMondayToSunday ==
    calc.pc = "returned" =>
        calc.result =
            {r \in rows : /\ r.visited_date >= LocalMonday(calc.today, calc.tz)
                          /\ r.visited_date <= LocalMonday(calc.today, calc.tz) + 6}

\* the same statement for a process whose time zone is UTC
WeekIsMondayToSundayInUTC ==
    (calc.pc = "returned" /\ calc.tz = UTC) =>
        calc.result =
            {r \in rows : /\ r.visited_date >= LocalMonday(calc.today, calc.tz)
                          /\ r.visited_date <= LocalMonday(calc.today, calc.tz) + 6}

----------------------------------------------------------------------------
(* Suggestion extractor: AIChat.parseExercisesFromMessage. A text is a
   sequence of characters: "*", white space " ", the digits, "x" for any
   other character; a label (the text a pattern's `Sets?:`, `Reps?:` or
   `Weight:` matches, in either case) is one character "S", "R" or "W". *)

Digits == {"0", "1", "3", "5"}

DigitValue(c) == CASE c = "0" -> 0 [] c = "1" -> 1 [] c = "3" -> 3 [] c = "5" -> 5

\* parseInt(digits)
RECURSIVE ParseInt(_)
ParseInt(ds) ==
    IF ds = <<>> THEN 0
    ELSE ParseInt(SubSeq(ds, 1, Len(ds) - 1)) * 10 + DigitValue(ds[Len(ds)])

\* how many characters from position q on are matched by [^*]+
RECURSIVE NonStarRun(_, _)
NonStarRun(text, q) ==
    IF q > Len(text) \/ text[q] = "*" THEN 0 ELSE 1 + NonStarRun(text, q + 1)

\* /\*\*([^*]+)\*\*/ matches at position p
BoldAt(text, p) ==
    /\ p + 1 <= Len(text) /\ text[p] = "*" /\ text[p + 1] = "*"
    /\ LET k == NonStarRun(text, p + 2) IN
       /\ k >= 1
       /\ p + 3 + k <= Len(text)
       /\ text[p + 2 + k] = "*" /\ text[p + 3 + k] = "*"

\* the leftmost position from p on where the pattern matches, 0 if none
RECURSIVE FindBold(_, _)
FindBold(text, p) ==
    IF p > Len(text) THEN 0
    ELSE IF BoldAt(text, p) THEN p
    ELSE FindBold(text, p + 1)

\* content.split(/\*\*([^*]+)\*\*/): the plain segments, with every
\* captured name between the segment before it and the segment after it
RECURSIVE Split(_)
Split(text) ==
    LET p == FindBold(text, 1) IN
    IF p = 0 THEN <<text>>
    ELSE LET k == NonStarRun(text, p + 2) IN
         <<SubSeq(text, 1, p - 1), SubSeq(text, p + 2, p + 1 + k)>>
         \o Split(SubSeq(text, p + 4 + k, Len(text)))

\* mutant: anything that is not a digit is skipped after the label
RECURSIVE SkipToDigits(_, _)
SkipToDigits(text, q) ==
    IF q <= Len(text) /\ text[q] \notin Digits THEN SkipToDigits(text, q + 1) ELSE q

\* the first position from q on that \s* does not match
RECURSIVE SkipSpaces(_, _)
SkipSpaces(text, q) ==
    IF q <= Len(text) /\ text[q] = " " THEN SkipSpaces(text, q + 1) ELSE q

\* the characters from q on that \d+ matches
RECURSIVE DigitRun(_, _)
DigitRun(text, q) ==
    IF q <= Len(text) /\ text[q] \in Digits
    THEN <<text[q]>> \o DigitRun(text, q + 1) ELSE <<>>

\* details.match(/<label>\s*(\d+)/i)[1]: the digits captured by the leftmost
\* match from p on; <<>> when there is no match (match() returns null)
RECURSIVE MatchLabel(_, _, _)
MatchLabel(details, label, p) ==
    IF p > Len(details) THEN <<>>
    ELSE LET ds == DigitRun(details, SkipSpaces(details, p + 1)) IN
         IF details[p] = label /\ ds # <<>> THEN ds
         ELSE MatchLabel(details, label, p + 1)

\* mutant: the weight is not required
EmitsWithoutWeight(exerciseName, setsMatch, repsMatch, weightMatch) ==
    exerciseName # <<>> /\ setsMatch # <<>> /\ repsMatch # <<>>

\* exerciseName && setsMatch && repsMatch && weightMatch
Emits(exerciseName, setsMatch, repsMatch, weightMatch) ==
    exerciseName # <<>> /\ setsMatch # <<>> /\ repsMatch # <<>> /\ weightMatch # <<>>

\* the loop over the names: sections[i] is a name (the source's odd index),
\* sections[i + 1] its details
RECURSIVE Exercises(_, _)
Exercises(sections, i) ==
    IF i > Len(sections) THEN <<>>
    ELSE LET exerciseName == Trim(sections[i])
             details == IF i + 1 <= Len(sections) THEN sections[i + 1] ELSE <<>>
             setsMatch == MatchLabel(details, "S", 1)
             repsMatch == MatchLabel(details, "R", 1)
             weightMatch == MatchLabel(details, "W", 1)
         IN (IF Emits(exerciseName, setsMatch, repsMatch, weightMatch)
             THEN <<[exercise |-> exerciseName, sets |-> ParseInt(setsMatch),
                     reps |-> ParseInt(repsMatch), weight |-> ParseInt(weightMatch)]>>
             ELSE <<>>)
            \o Exercises(sections, i + 2)

ParseExercisesFromMessage(content) == Exercises(Split(content), 2)

\* the names an assistant text puts between double asterisks: a word, a
\* longer word with white space around it, white space only
Names == {<<"x">>, <<" ", "x", "x", " ">>, <<" ">>}

\* what an assistant text says about one label: nothing; the label and an
\* integer ("Sets: 3"); the label and words ("Weight: (see below)"); the
\* label, a word and then digits ("Weight: ~135")
NoPiece == [kind |-> "absent", digits |-> <<>>, value |-> 0]

SetsPieces ==
    {NoPiece, [kind |-> "int", digits |-> <<"3">>, value |-> 3],
     [kind |-> "apart", digits |-> <<"3">>, value |-> 3]}

RepsPieces ==
    {NoPiece, [kind |-> "int", digits |-> <<"1", "0">>, value |-> 10],
     [kind |-> "words", digits |-> <<>>, value |-> 0]}

WeightPieces ==
    {NoPiece, [kind |-> "int", digits |-> <<"1", "3", "5">>, value |-> 135],
     [kind |-> "words", digits |-> <<>>, value |-> 0],
     [kind |-> "apart", digits |-> <<"1", "3", "5">>, value |-> 135]}

\* one bold name and what follows it
Blocks == [name : Names, sets : SetsPieces, reps : RepsPieces, weight : WeightPieces]

\* the characters of one label's line
PieceText(label, piece) ==
    CASE piece.kind = "absent" -> <<>>
      [] piece.kind = "int" -> <<"x", label, " ">> \o piece.digits \o <<"x", " ">>
      [] piece.kind = "words" -> <<"x", label, " ", "x", "x", " ">>
      [] piece.kind = "apart" -> <<"x", label, " ", "x">> \o piece.digits \o <<" ">>

BlockText(b) ==
    <<"*", "*">> \o b.name \o <<"*", "*", " ">>
    \o PieceText("S", b.sets) \o PieceText("R", b.reps) \o PieceText("W", b.weight)

\* an assistant text: some characters, then the blocks
RECURSIVE BlocksText(_)
BlocksText(bs) == IF bs = <<>> THEN <<>> ELSE BlockText(Head(bs)) \o BlocksText(Tail(bs))

\* parseExercisesFromMessage(msg.content) is evaluated when a turn is rendered
ParseMessage ==
    /\ calc.fn = "parseExercisesFromMessage" /\ calc.pc = "ready"
    /\ calc' = [calc EXCEPT !.pc = "returned",
                            !.result = ParseExercisesFromMessage(calc.content)]
    /\ UNCHANGED <<visitVars, chatVars, mutVars, pageVars>>

\* an assistant turn's text is any text of up to two blocks, after nothing,
\* a word or a single asterisk
ParseInit ==
    /\ uniqueDate = FALSE
    /\ rows = {}
    /\ call = [p \in Callers |-> IdleCall]
    /\ last = NoCall
    /\ prev = NoCall
    /\ ep = IdleEp
    /\ modelIn = <<>>
    /\ out = <<>>
    /\ wire = <<>>
    /\ uiChunks = 0
    /\ messages = <<>>
    /\ input = <<>>
    /\ isLoading = FALSE
    /\ ui = IdleUi
    /\ recv = <<>>
    /\ now = 0
    /\ workouts = {}
    /\ mut = IdleMut
    /\ togglingDate = NoDate
    /\ visitedDates = {}
    /\ pend = {}
    /\ deletingId = NoId
    /\ pendDel = [i \in {} |-> 0]
    /\ ansDel = [i \in {} |-> 0]
    /\ okDel = [i \in {} |-> 0]
    /\ listed = {}
    /\ stale = FALSE
    /\ clicks = 0
    /\ adding = IdleAdding
    /\ render = NoRender
    /\ \E pre \in {<<>>, <<"x", " ">>, <<"*">>},
          bs \in {<<>>} \cup {<<b>> : b \in Blocks}
                 \cup {<<b1, b2>> : b1 \in Blocks, b2 \in Blocks} :
          calc = [fn |-> "parseExercisesFromMessage", pc |-> "ready",
                  blocks |-> bs, content |-> pre \o BlocksText(bs),
                  result |-> <<>>]

ParseNext == ParseMessage

\* the suggestion extractor applied to assistant texts
SpecParse == ParseInit /\ [][ParseNext]_vars

\* the suggestions the blocks call for: one per block that has a name and
\* whose three labels are each followed by an integer, in the blocks' order
RECURSIVE Suggested(_)
Suggested(bs) ==
    IF bs = <<>> THEN <<>>
    ELSE LET b == Head(bs) IN
         (IF /\ \E j \in 1..Len(b.name) : b.name[j] # " "
             /\ b.sets.kind = "int" /\ b.reps.kind = "int" /\ b.weight.kind = "int"
          THEN <<[exercise |-> SelectSeq(b.name, LAMBDA c : c # " "),
                  sets |-> b.sets.value, reps |-> b.reps.value,
                  weight |-> b.weight.value]>>
          ELSE <<>>)
         \o Suggested(Tail(bs))

(* C14: parseExercisesFromMessage emits a suggestion for a bold-delimited
   name if and only if the plain segment right after the name contains a
   Sets label, a Reps label and a Weight label, each followed (after white
   space only) by an integer; a bold span of white space holds no name and
   gets none. The suggestions carry the trimmed name and the three integers,
   come in the order of the names in the text, and a name that occurs twice
   gets a suggestion for each occurrence. *)
C14_SuggestionIffThreeIntegers ==
    calc.pc = "returned" => calc.result = Suggested(calc.blocks)

\* the same name twice, both times with the three integers: two suggestions
C14_Witness_RepeatedName ==
    /\ calc.pc = "returned"
    /\ Len(calc.blocks) = 2
    /\ calc.blocks[1].name = <<"x">> /\ calc.blocks[2].name = <<"x">>
    /\ Len(calc.result) = 2
    /\ calc.result[1] = calc.result[2]

----------------------------------------------------------------------------
(* Workout mutations: addWorkout, addWorkouts, deleteWorkout *)

\* the workouts table holds at most this many rows
MaxWorkouts == 2

\* the calls a client may make: addWorkout(data), addWorkouts of a list of
\* none, one or two workouts, deleteWorkout(id) of a row's id or of no row's
MutationCalls ==
    {[fn |-> "addWorkout", arg |-> <<"w">>]}
    \cup {[fn |-> "addWorkouts", arg |-> a] : a \in {<<>>, <<"w">>, <<"w", "w">>}}
    \cup {[fn |-> "deleteWorkout", arg |-> <<id>>] : id \in 1..(MaxWorkouts + 1)}

\* the rows an insert of n workouts adds, with store-assigned ids
InsertedWorkouts(t, n) ==
    {[id |-> i] : i \in {j \in 1..(2 * MaxWorkouts + 2) :
                           /\ j \notin {r.id : r \in t}
                           /\ Cardinality({k \in 1..j : k \notin {r.id : r \in t}}) <= n}}

\* a mutation is called: its write is issued and awaited
MutationCall(c) ==
    /\ mut.pc # "write"
    /\ mut' = [IdleMut EXCEPT !.fn = c.fn, !.pc = "write", !.arg = c.arg]
    /\ UNCHANGED workouts
    /\ UNCHANGED <<visitVars, chatVars, queryVars, pageVars>>

\* addWorkout(data): .insert(data) answers
AddWorkout(fails) ==
    /\ mut.fn = "addWorkout" /\ mut.pc = "write"
    /\ ~fails => Cardinality(workouts) < MaxWorkouts
    /\ LET error == IF fails THEN CallFailed ELSE NoError IN
       /\ workouts' = IF fails THEN workouts
                      ELSE workouts \cup InsertedWorkouts(workouts, 1)
       /\ mut' = [mut EXCEPT !.pc = Settle(error).pc, !.stored = error,
                             !.thrown = Settle(error).thrown,
                             !.revalidated = Settle(error).revalidated]
    /\ UNCHANGED <<visitVars, chatVars, queryVars, pageVars>>

\* addWorkouts(workouts): .insert(workouts) answers; the rows are inserted
\* together or not at all
AddWorkouts(fails) ==
    /\ mut.fn = "addWorkouts" /\ mut.pc = "write"
    /\ ~fails => Cardinality(workouts) + Len(mut.arg) <= MaxWorkouts
    /\ LET error == IF fails THEN CallFailed ELSE NoError IN
       /\ workouts' = IF fails THEN workouts
                      ELSE workouts \cup InsertedWorkouts(workouts, Len(mut.arg))
       /\ mut' = [mut EXCEPT !.pc = Settle(error).pc, !.stored = error,
                             !.thrown = Settle(error).thrown,
                             !.revalidated = Settle(error).revalidated]
    /\ UNCHANGED <<visitVars, chatVars, queryVars, pageVars>>

\* deleteWorkout(id): .delete().eq('id', id) answers; no row with that id
\* is no error
DeleteWorkout(fails) ==
    /\ mut.fn = "deleteWorkout" /\ mut.pc = "write"
    /\ LET error == IF fails THEN CallFailed ELSE NoError IN
       /\ workouts' = IF fails THEN workouts
                      ELSE {r \in workouts : r.id # mut.arg[1]}
       /\ mut' = [mut EXCEPT !.pc = Settle(error).pc, !.stored = error,
                             !.thrown = Settle(error).thrown,
                             !.revalidated = Settle(error).revalidated]
    /\ UNCHANGED <<visitVars, chatVars, queryVars, pageVars>>

\* both tables start empty; the gym_visits schema may or may not have the
\* unique constraint; no mutation is running
MutationsInit ==
    /\ uniqueDate \in BOOLEAN
    /\ rows = {}
    /\ call = [p \in Callers |-> IdleCall]
    /\ last = NoCall
    /\ prev = NoCall
    /\ ep = IdleEp
    /\ modelIn = <<>>
    /\ out = <<>>
    /\ wire = <<>>
    /\ uiChunks = 0
    /\ messages = <<>>
    /\ input = <<>>
    /\ isLoading = FALSE
    /\ ui = IdleUi
    /\ recv = <<>>
    /\ now = 0
    /\ calc = NoCalc
    /\ workouts = {}
    /\ mut = IdleMut
    /\ togglingDate = NoDate
    /\ visitedDates = {}
    /\ pend = {}
    /\ deletingId = NoId
    /\ pendDel = [i \in {} |-> 0]
    /\ ansDel = [i \in {} |-> 0]
    /\ okDel = [i \in {} |-> 0]
    /\ listed = {}
    /\ stale = FALSE
    /\ clicks = 0
    /\ adding = IdleAdding
    /\ render = NoRender

MutationsNext ==
    \/ \E c \in MutationCalls : MutationCall(c)
    \/ \E fails \in BOOLEAN : AddWorkout(fails)
    \/ \E fails \in BOOLEAN : AddWorkouts(fails)
    \/ \E fails \in BOOLEAN : DeleteWorkout(fails)
    \/ \E d \in DateSet : ToggleStart("c1", d) /\ UNCHANGED pageVars
    \/ \E fails \in BOOLEAN : ToggleSelect("c1", fails) /\ UNCHANGED pageVars
    \/ \E fails \in BOOLEAN : ToggleWrite("c1", fails) /\ UNCHANGED pageVars

\* the four mutations of one client against the store
SpecMutations == MutationsInit /\ [][MutationsNext]_vars

\* what C15 says of one call, given the write's answer noted in `stored`
SettledByWrite(c) ==
    /\ c.pc = "done" => (c.stored = NoError /\ c.revalidated /\ c.thrown = NoError)
    /\ c.pc = "thrown" => (c.stored # NoError /\ ~c.revalidated /\ c.thrown = c.stored)
    /\ c.pc \notin {"done", "thrown"} => ~c.revalidated

(* C15: addWorkout, addWorkouts, deleteWorkout and toggleGymVisit call
   revalidatePath exactly when their store write succeeded: a call that
   finished whose write the store answered without error has revalidated and
   not thrown; a call whose write the store answered with an error has
   thrown an error with the store's message and has not revalidated; a call
   whose write has not been answered has not revalidated. *)
C15_RevalidatesIffWriteSucceeded ==
    SettledByWrite(mut) /\ \A p \in Callers : SettledByWrite(call[p])

\* a workout insert went through and revalidated, after a toggle whose
\* insert was refused by the unique constraint threw the store's message
C15_Witness_BothOutcomes ==
    /\ mut.fn = "addWorkouts" /\ mut.pc = "done" /\ Cardinality(workouts) = 2
    /\ call["c1"].pc = "thrown" /\ call["c1"].thrown = Duplicate

----------------------------------------------------------------------------
(* getRecentWorkouts(days); created_at is an instant, in hours like a Date *)

\* the window lengths a caller asks for
MaxDays == 2

\* the instants the query is made at: on the Monday after the clock change
\* of the zones that have one
RecentTodays == {MakeInstant(14, 3, UTC), MakeInstant(14, 6, UTC), MakeInstant(14, 21, UTC)}

\* the instants workouts were created at: around each cut-off
CreatedAts ==
    {t - 24 * k + e : t \in RecentTodays, k \in 0..MaxDays, e \in (0 - 2)..2}

\* workouts tables of up to two rows
WorkoutTables ==
    {{}} \cup {{[id |-> 1, created_at |-> a]} : a \in CreatedAts}
    \cup {{[id |-> 1, created_at |-> a], [id |-> 2, created_at |-> b]} :
            a \in CreatedAts, b \in CreatedAts}

\* since = new Date(); since.setDate(since.getDate() - days)
Since(today, tz, days) == AddDays(today, tz, 0 - days)

\* mutant: rows created at the cut-off instant are left out
WorkoutsAfter(t, since) == {w \in t : w.created_at > since}

\* .gte('created_at', since.toISOString())
WorkoutsSince(t, since) == {w \in t : w.created_at >= since}

\* .order('created_at', { ascending: false }): the orders the store may
\* return the rows in (rows of one created_at in either order)
DescendingOrders(t) ==
    {q \in [1..Cardinality(t) -> t] :
        /\ \A i, j \in 1..Cardinality(t) : i # j => q[i] # q[j]
        /\ \A i, j \in 1..Cardinality(t) :
              i < j => q[i].created_at >= q[j].created_at}

\* getRecentWorkouts(days): the rows since the cut-off in descending order,
\* or a throw with the store's error
GetRecentWorkouts(fails) ==
    /\ calc.fn = "getRecentWorkouts" /\ calc.pc = "ready"
    /\ IF fails THEN calc' = [calc EXCEPT !.pc = "thrown"]
       ELSE \E q \in DescendingOrders(
                        WorkoutsSince(workouts,
                                      Since(calc.today, calc.tz, calc.days))) :
                calc' = [calc EXCEPT !.pc = "returned", !.result = q]
    /\ UNCHANGED <<visitVars, chatVars, workouts, mut, pageVars>>

RecentInit ==
    /\ uniqueDate = FALSE
    /\ rows = {}
    /\ call = [p \in Callers |-> IdleCall]
    /\ last = NoCall
    /\ prev = NoCall
    /\ ep = IdleEp
    /\ modelIn = <<>>
    /\ out = <<>>
    /\ wire = <<>>
    /\ uiChunks = 0
    /\ messages = <<>>
    /\ input = <<>>
    /\ isLoading = FALSE
    /\ ui = IdleUi
    /\ recv = <<>>
    /\ now = 0
    /\ workouts \in WorkoutTables
    /\ mut = IdleMut
    /\ togglingDate = NoDate
    /\ visitedDates = {}
    /\ pend = {}
    /\ deletingId = NoId
    /\ pendDel = [i \in {} |-> 0]
    /\ ansDel = [i \in {} |-> 0]
    /\ okDel = [i \in {} |-> 0]
    /\ listed = {}
    /\ stale = FALSE
    /\ clicks = 0
    /\ adding = IdleAdding
    /\ render = NoRender
    /\ calc \in [fn : {"getRecentWorkouts"}, pc : {"ready"}, today : RecentTodays,
                 tz : Zones, days : 0..MaxDays, result : {<<>>}]

RecentNext == \E fails \in BOOLEAN : GetRecentWorkouts(fails)

\* the recent-workouts query
SpecRecent == RecentInit /\ [][RecentNext]_vars

\* the instants around 24 * n hours before `today` at which the zone's clock
\* shows `today`'s time of day (moved on by `later` hours), n calendar days
\* before `today`'s date
SameLocalTime(today, tz, n, later) ==
    {c \in (today - 24 * n - 2)..(today - 24 * n + 2) :
        /\ LocalDay(c, tz) * 24 + LocalHour(c, tz)
              = (LocalDay(today, tz) - n) * 24 + LocalHour(today, tz) + later}

\* now minus n days: the first instant at which the local clock shows now's
\* time of day on the date n days before now's date; when the clock change
\* skipped that time of day, the instant the clock shows the hour after it
DaysBefore(today, tz, n) ==
    LET same == SameLocalTime(today, tz, n, 0)
        cs == IF same # {} THEN same ELSE SameLocalTime(today, tz, n, 1)
    IN CHOOSE c \in cs : \A d \in cs : c <= d

(* C16: for every window length N >= 0, getRecentWorkouts(N) returns exactly
   the workouts created at or after now minus N days, each once, ordered by
   created_at descending. Now minus N days is the instant of the same local
   time of day N calendar days earlier (the hour after it when the clock
   change skipped it); it is N times 24 hours before now when the zone's
   offset and the time of day are the same at both instants, and an hour
   more or less across a clock change. *)
C16_RecentWindowDescending ==
    calc.pc = "returned" =>
        LET cutoff == DaysBefore(calc.today, calc.tz, calc.days) IN
        /\ {calc.result[i] : i \in 1..Len(calc.result)}
               = {w \in workouts : w.created_at >= cutoff}
        /\ Len(calc.result)
               = Cardinality({w \in workouts : w.created_at >= cutoff})
        /\ \A i \in 1..(Len(calc.result) - 1) :
              calc.result[i].created_at >= calc.result[i + 1].created_at
        /\ (/\ Offset(calc.tz, cutoff) = Offset(calc.tz, calc.today)
            /\ LocalHour(cutoff, calc.tz) = LocalHour(calc.today, calc.tz))
              => cutoff = calc.today - 24 * calc.days

\* the same with a day of 24 hours: holds where the zone keeps its offset
RecentWindowOf24HourDays ==
    (calc.pc = "returned" /\ calc.tz.before = calc.tz.after) =>
        {calc.result[i] : i \in 1..Len(calc.result)}
            = {w \in workouts : w.created_at >= calc.today - 24 * calc.days}

\* a two-day window across the clocks going forward: the cut-off is 47 hours
\* before now; one row created exactly at the cut-off and a later row are
\* returned, the later one first
C16_Witness_RowAtCutoff ==
    /\ calc.pc = "returned"
    /\ calc.days = 2
    /\ calc.tz = SpringForward
    /\ Len(calc.result) = 2
    /\ calc.result[2].created_at = calc.today - 47
    /\ calc.result[1].created_at > calc.result[2].created_at

----------------------------------------------------------------------------
(* Claims about the chat UI's turn list *)

(* C17: after any sequence of chat submits all turns of the list have
   pairwise distinct ids, so that a chunk or an apology addressed to the
   placeholder's id changes that one turn and no other. *)
C17_TurnIdsDistinct ==
    \A i, j \in 1..Len(messages) : i # j => messages[i].id # messages[j].id

\* the two turns of one submit never share an id: the placeholder's id is
\* the later clock reading plus one
PairIdsDistinct ==
    \A i \in 1..Len(messages) :
        i % 2 = 1 => (i + 1 <= Len(messages) /\ messages[i].id < messages[i + 1].id)

\* while isLoading is true a further submit does nothing: no step taken
\* while loading makes the turn list longer or starts another handleSubmit
\* invocation, and isLoading is true exactly while one request is in flight
OneRequestWhileLoading ==
    /\ [][isLoading => (/\ Len(messages') = Len(messages)
                        /\ ui'.running <= ui.running
                        /\ ui'.assistantId = ui.assistantId)]_vars
    /\ [](/\ ui.running <= 1
          /\ isLoading <=> ui.running = 1
          /\ isLoading => (ui.pc \in {"fetch", "read"} /\ ui.ph = Len(messages)))

\* a chunk that is read changes no turn but the placeholder of the request
\* in flight, the last turn of the list
ChunkGoesToOnePlaceholder ==
    [][Len(recv') > Len(recv)
         => \A i \in 1..Len(messages) : i # ui.ph => messages'[i] = messages[i]]_vars

(* C18: while isLoading is true a further submit does nothing: it appends
   no turn and opens no request. So at most one chat request is in flight at
   any time, and at most one assistant placeholder receives chunks: a chunk
   that is read changes the last placeholder of the list and no other
   turn. *)
C18_NoSubmitWhileLoading ==
    OneRequestWhileLoading /\ ChunkGoesToOnePlaceholder

\* reachable: a submit was declined while the second request's stream was
\* being read
DeclinedWhileReading ==
    /\ isLoading /\ ui.declined
    /\ ui.pc = "read" /\ Len(messages) = 4
    /\ messages[4].content # <<>>

(* C20: every accepted submit whose request fails (fetch rejects, the
   response is not ok, a read rejects) or whose stream reaches its end
   re-enables sending: the step in which handleSubmit reaches an outcome, on
   the success path and on the error path alike, sets isLoading to false;
   isLoading is true only while the request has neither failed nor delivered
   the end of the stream. *)
C20_OutcomeReenablesSending ==
    /\ [][(ui.outcome = "none" /\ ui'.outcome \in {"ok", "error"})
            => (isLoading /\ ~isLoading')]_vars
    /\ [][(isLoading /\ ~isLoading') => ui'.outcome \in {"ok", "error"}]_vars
    /\ [](ui.outcome \in {"ok", "error"} => (~isLoading /\ ui.pc = "idle"))
    /\ [](isLoading => ui.outcome = "none")

\* a first submit ended on the error path, a second one on the success
\* path after its stream was read to the end, and sending is enabled
C20_Witness_ErrorThenSuccess ==
    /\ Len(messages) = 4
    /\ messages[2].content = Apology
    /\ messages[4].content # <<>> /\ messages[4].content # Apology
    /\ ui.outcome = "ok"
    /\ ~isLoading

----------------------------------------------------------------------------
(* Page: WeeklyAttendance.handleToggle and WorkoutList.handleDelete *)

\* the user clicks at most this many day cells and Delete buttons
MaxClicks == 3

\* disabled={isToggling}, isToggling = togglingDate === date
CellDisabled(d) == togglingDate = d

\* disabled={deletingId === workout.id}
ButtonDisabled(id) == deletingId = id

\* finally { setTogglingDate(null) }
AfterToggle(d) == NoDate

\* next.has(date) ? next.delete(date) : next.add(date)
Flip(set, d) == IF d \in set THEN set \ {d} ELSE set \cup {d}

\* a day cell that is not disabled is clicked: handleToggle(date) sets
\* togglingDate and calls toggleGymVisit(date), as caller p
HandleToggle(p, d) ==
    /\ clicks < MaxClicks
    /\ ~CellDisabled(d)
    /\ p \notin pend
    /\ ToggleStart(p, d)
    /\ togglingDate' = d
    /\ pend' = pend \cup {p}
    /\ clicks' = clicks + 1
    /\ UNCHANGED <<visitedDates, deletingId, pendDel, ansDel, okDel, listed, stale,
                   adding, render>>

\* the awaited toggleGymVisit of caller p settles: when it did not throw the
\* local set is flipped; finally togglingDate is cleared (a call that
\* returned has revalidated "/": the page will be rendered anew)
HandleToggleSettle(p) ==
    /\ p \in pend
    /\ Finished(p)
    /\ visitedDates' = IF call[p].pc = "done"
                       THEN Flip(visitedDates, call[p].date) ELSE visitedDates
    /\ togglingDate' = AfterToggle(call[p].date)
    /\ pend' = pend \ {p}
    /\ call' = [call EXCEPT ![p] = IdleCall]
    /\ stale' = (stale \/ call[p].revalidated)
    /\ UNCHANGED <<uniqueDate, rows, last, prev, deletingId, pendDel, ansDel, okDel,
                   listed, clicks, adding, render>>
    /\ UNCHANGED <<chatVars, queryVars, mutVars>>

\* the Delete button of a listed row, not disabled, is clicked:
\* handleDelete(id) sets deletingId and calls deleteWorkout(id); the rows
\* listed are those of the `workouts` prop, whatever the store holds by now
HandleDelete(id) ==
    /\ id \in listed
    /\ ~ButtonDisabled(id)
    /\ clicks < MaxClicks
    /\ deletingId' = id
    /\ pendDel' = [pendDel EXCEPT ![id] = @ + 1]
    /\ clicks' = clicks + 1
    /\ UNCHANGED <<togglingDate, visitedDates, pend, ansDel, okDel, listed, stale,
                   workouts, mut, adding, render>>
    /\ UNCHANGED <<visitVars, chatVars, queryVars>>

\* the store answers the delete request of a deleteWorkout(id) that is being
\* awaited: the row, if still there, is gone unless the store answers with
\* an error; the handler has not resumed yet
StoreDelete(id, fails) ==
    /\ id \in DOMAIN pendDel
    /\ pendDel[id] > ansDel[id]
    /\ workouts' = IF fails THEN workouts ELSE {r \in workouts : r.id # id}
    /\ ansDel' = [ansDel EXCEPT ![id] = @ + 1]
    /\ okDel' = [okDel EXCEPT ![id] = IF fails THEN @ ELSE @ + 1]
    /\ UNCHANGED <<togglingDate, visitedDates, pend, deletingId, pendDel, listed,
                   stale, mut, clicks, adding, render>>
    /\ UNCHANGED <<visitVars, chatVars, queryVars>>

\* deleteWorkout(id) returns (ok: it has revalidated "/") or throws, and
\* handleDelete resumes: a throw is caught and logged; finally deletingId is
\* cleared
HandleDeleteSettle(id, ok) ==
    /\ id \in DOMAIN ansDel
    /\ IF ok THEN okDel[id] > 0 ELSE ansDel[id] > okDel[id]
    /\ deletingId' = NoId
    /\ pendDel' = [pendDel EXCEPT ![id] = @ - 1]
    /\ ansDel' = [ansDel EXCEPT ![id] = @ - 1]
    /\ okDel' = [okDel EXCEPT ![id] = IF ok THEN @ - 1 ELSE @]
    /\ stale' = (stale \/ ok)
    /\ UNCHANGED <<togglingDate, visitedDates, pend, listed, workouts, mut, clicks,
                   adding, render>>
    /\ UNCHANGED <<visitVars, chatVars, queryVars>>

\* disabled={isLoading} of the form's submit button
SubmitDisabled == adding.isLoading

\* WorkoutForm.handleSubmit: the form, its button not disabled, is
\* submitted: isLoading is set and addWorkout(data) is called
WorkoutFormSubmit ==
    /\ clicks < MaxClicks
    /\ ~SubmitDisabled
    /\ adding' = [adding EXCEPT !.isLoading = TRUE, !.form = "sent"]
    /\ clicks' = clicks + 1
    /\ UNCHANGED <<togglingDate, visitedDates, pend, deletingId, pendDel, ansDel,
                   okDel, listed, stale, render, workouts, mut>>
    /\ UNCHANGED <<visitVars, chatVars, queryVars>>

\* the quick-add buttons the chat shows: one per exercise parsed from an
\* assistant turn, <<turn, index>>
QuickAddButtons ==
    UNION {{<<i, k>> : k \in 1..Len(ParseExercisesFromMessage(messages[i].content))} :
             i \in {j \in 1..Len(messages) : messages[j].role = "assistant"}}

\* AIChat.handleQuickAdd: a quick-add button is clicked (it is never
\* disabled): addWorkout(workoutData) is called
HandleQuickAdd(b) ==
    /\ clicks < MaxClicks
    /\ b \in QuickAddButtons
    /\ adding' = [adding EXCEPT !.sent = @ + 1]
    /\ clicks' = clicks + 1
    /\ UNCHANGED <<togglingDate, visitedDates, pend, deletingId, pendDel, ansDel,
                   okDel, listed, stale, render, workouts, mut>>
    /\ UNCHANGED <<visitVars, chatVars, queryVars>>

\* the id the store gives the next row: one no row had before
NewWorkoutId == MaxWorkouts + adding.made + 1

\* the store answers the insert of an addWorkout that is being awaited, the
\* form's or a quick add's: unless it answers with an error the table has
\* one more row; the handler has not resumed yet
StoreInsert(fromForm, fails) ==
    /\ IF fromForm THEN adding.form = "sent" ELSE adding.sent > 0
    /\ workouts' = IF fails THEN workouts ELSE workouts \cup {[id |-> NewWorkoutId]}
    /\ adding' =
          LET a == IF fails THEN adding ELSE [adding EXCEPT !.made = @ + 1] IN
          IF fromForm THEN [a EXCEPT !.form = IF fails THEN "failed" ELSE "ok"]
          ELSE IF fails THEN [a EXCEPT !.sent = @ - 1, !.failed = @ + 1]
          ELSE [a EXCEPT !.sent = @ - 1, !.ok = @ + 1]
    /\ UNCHANGED <<togglingDate, visitedDates, pend, deletingId, pendDel, ansDel,
                   okDel, listed, stale, render, mut, clicks>>
    /\ UNCHANGED <<visitVars, chatVars, queryVars>>

\* the form's addWorkout returns (ok: it has revalidated "/") or throws, and
\* handleSubmit resumes: finally isLoading is cleared
WorkoutFormSettle(ok) ==
    /\ adding.form = (IF ok THEN "ok" ELSE "failed")
    /\ adding' = [adding EXCEPT !.isLoading = FALSE, !.form = "idle"]
    /\ stale' = (stale \/ ok)
    /\ UNCHANGED <<togglingDate, visitedDates, pend, deletingId, pendDel, ansDel,
                   okDel, listed, render, workouts, mut, clicks>>
    /\ UNCHANGED <<visitVars, chatVars, queryVars>>

\* a quick add's addWorkout returns (ok: it has revalidated "/") or throws,
\* and handleQuickAdd resumes: a throw is caught and logged
HandleQuickAddSettle(ok) ==
    /\ IF ok THEN adding.ok > 0 ELSE adding.failed > 0
    /\ adding' = IF ok THEN [adding EXCEPT !.ok = @ - 1]
                 ELSE [adding EXCEPT !.failed = @ - 1]
    /\ stale' = (stale \/ ok)
    /\ UNCHANGED <<togglingDate, visitedDates, pend, deletingId, pendDel, ansDel,
                   okDel, listed, render, workouts, mut, clicks>>
    /\ UNCHANGED <<visitVars, chatVars, queryVars>>

\* an action of the page has called revalidatePath('/') and its handler has
\* not resumed yet
Revalidating ==
    \/ \E p \in pend : call[p].revalidated
    \/ \E id \in DOMAIN okDel : okDel[id] > 0
    \/ adding.form = "ok"
    \/ adding.ok > 0

\* once an action has called revalidatePath('/'), before or after its
\* handler has resumed, Home is rendered anew on the server: its first
\* await, getWorkouts(), returns the rows the store holds at that moment, or
\* the store answers with an error: getWorkouts throws, Home rejects and
\* returns no tree
HomeGetWorkouts(fails) ==
    /\ stale \/ Revalidating
    /\ ~render.on
    /\ render' = IF fails THEN render
                 ELSE [on |-> TRUE, ids |-> {r.id : r \in workouts}]
    /\ stale' = FALSE
    /\ UNCHANGED <<togglingDate, visitedDates, pend, deletingId, pendDel, ansDel,
                   okDel, listed, workouts, mut, clicks, adding>>
    /\ UNCHANGED <<visitVars, chatVars, queryVars>>

\* Home's second await, getWeeklyGymVisits(), has returned and the tree is
\* mounted: the `workouts` prop becomes the rows getWorkouts() returned,
\* whatever the store holds by now (useState keeps visitedDates,
\* togglingDate, deletingId and the form's isLoading); or the store answers
\* with an error: getWeeklyGymVisits throws, Home rejects and returns no
\* tree, the rows listed stay
HomeRender(fails) ==
    /\ render.on
    /\ listed' = IF fails THEN listed ELSE render.ids
    /\ render' = NoRender
    /\ UNCHANGED <<togglingDate, visitedDates, pend, deletingId, pendDel, ansDel,
                   okDel, stale, workouts, mut, clicks, adding>>
    /\ UNCHANGED <<visitVars, chatVars, queryVars>>

\* the ids a workout row of the page can have
PageIds == 1..(MaxWorkouts + MaxClicks)

\* a chat in which the assistant has suggested one exercise
SuggestionTurns ==
    <<[id |-> 0, role |-> "user", content |-> <<"x">>],
      [id |-> 1, role |-> "assistant",
       content |-> BlockText([name |-> <<"x">>,
                              sets |-> [kind |-> "int", digits |-> <<"3">>, value |-> 3],
                              reps |-> [kind |-> "int", digits |-> <<"1", "0">>,
                                        value |-> 10],
                              weight |-> [kind |-> "int", digits |-> <<"1", "3", "5">>,
                                          value |-> 135]])]>>

\* the page as loaded, or after a chat in which one exercise was suggested:
\* no visit, two workouts listed, nothing in flight
PageInit ==
    /\ uniqueDate \in BOOLEAN
    /\ rows = {}
    /\ call = [p \in Callers |-> IdleCall]
    /\ last = NoCall
    /\ prev = NoCall
    /\ ep = IdleEp
    /\ modelIn = <<>>
    /\ out = <<>>
    /\ wire = <<>>
    /\ uiChunks = 0
    /\ messages \in {<<>>, SuggestionTurns}
    /\ input = <<>>
    /\ isLoading = FALSE
    /\ ui = IdleUi
    /\ recv = <<>>
    /\ now = 0
    /\ calc = NoCalc
    /\ workouts = {[id |-> i] : i \in 1..MaxWorkouts}
    /\ mut = IdleMut
    /\ togglingDate = NoDate
    /\ visitedDates = {}
    /\ pend = {}
    /\ deletingId = NoId
    /\ pendDel = [i \in PageIds |-> 0]
    /\ ansDel = [i \in PageIds |-> 0]
    /\ okDel = [i \in PageIds |-> 0]
    /\ listed = 1..MaxWorkouts
    /\ stale = FALSE
    /\ clicks = 0
    /\ adding = IdleAdding
    /\ render = NoRender

PageNext ==
    \/ \E p \in Callers, d \in DateSet : HandleToggle(p, d)
    \/ \E p \in Callers, fails \in BOOLEAN :
          ToggleSelect(p, fails) /\ UNCHANGED pageVars
    \/ \E p \in Callers, fails \in BOOLEAN :
          ToggleWrite(p, fails) /\ UNCHANGED pageVars
    \/ \E p \in Callers : HandleToggleSettle(p)
    \/ \E id \in PageIds : HandleDelete(id)
    \/ \E id \in PageIds, fails \in BOOLEAN : StoreDelete(id, fails)
    \/ \E id \in PageIds, ok \in BOOLEAN : HandleDeleteSettle(id, ok)
    \/ WorkoutFormSubmit
    \/ \E b \in QuickAddButtons : HandleQuickAdd(b)
    \/ \E fromForm \in BOOLEAN, fails \in BOOLEAN : StoreInsert(fromForm, fails)
    \/ \E ok \in BOOLEAN : WorkoutFormSettle(ok)
    \/ \E ok \in BOOLEAN : HandleQuickAddSettle(ok)
    \/ \E fails \in BOOLEAN : HomeGetWorkouts(fails)
    \/ \E fails \in BOOLEAN : HomeRender(fails)

\* the attendance grid and the workout list of one open page
SpecPage == PageInit /\ [][PageNext]_vars

(* C19: while a toggle of a day cell is in flight that day's cell is
   disabled, and while a delete of a workout row is in flight that row's
   button is disabled, until that same action has finished; also when an
   action on another day or row is started or finishes in the meantime. *)
C19_BusyControlStaysDisabled ==
    /\ \A p \in pend : CellDisabled(call[p].date)
    /\ \A id \in DOMAIN pendDel : pendDel[id] > 0 => ButtonDisabled(id)

\* a click disables the clicked control, and the control stays disabled as
\* long as no handler of its component starts or finishes
ClickDisablesControl ==
    [][/\ \A p \in pend' \ pend : togglingDate' = call'[p].date
       /\ \A id \in DOMAIN pendDel : pendDel'[id] > pendDel[id] => deletingId' = id
       /\ pend' = pend => togglingDate' = togglingDate
       /\ pendDel' = pendDel => deletingId' = deletingId]_vars

----------------------------------------------------------------------------
(* WeeklyAttendance.getWeekDates: the dates of the grid's seven cells *)

\* the seven date strings, for the cells Mon .. Sun in this order: Monday is
\* today moved back by daysFromMonday days with today's time of day kept
\* (no setHours here), each cell's Date is Monday moved on by its index, and
\* its string is the UTC date of that instant
GetWeekDates(today, tz) ==
    LET monday == AddDays(today, tz, 0 - DaysFromMonday(GetDay(today, tz)))
    IN [i \in 1..7 |-> ToISODate(AddDays(monday, tz, i - 1))]

\* the clock moves on by at most this many hours between the weekly query
\* and the last rendering of the grid
MaxRenderDelay == 2

\* Home() awaits getWeeklyGymVisits(), which reads the clock (calc.today) in
\* the server process (time zone stz) and queries its range
QueryWeek ==
    /\ calc.fn = "getWeekDates" /\ calc.pc = "ready"
    /\ calc' = [calc EXCEPT !.pc = "queried",
                            !.range = WeekRange(calc.today, calc.stz)]
    /\ UNCHANGED <<visitVars, chatVars, mutVars, pageVars>>

\* WeeklyAttendance is rendered, after the query and again on every later
\* rendering: getWeekDates reads the clock anew (calc.at, d hours on) in the
\* process that renders (time zone tz)
RenderWeek(d) ==
    /\ calc.fn = "getWeekDates" /\ calc.pc \in {"queried", "returned"}
    /\ calc.at + d <= calc.today + MaxRenderDelay
    /\ calc' = [calc EXCEPT !.pc = "returned",
                            !.at = calc.at + d,
                            !.dates = GetWeekDates(calc.at + d, calc.tz)]
    /\ UNCHANGED <<visitVars, chatVars, mutVars, pageVars>>

GridDatesInit ==
    /\ uniqueDate = FALSE
    /\ rows = {}
    /\ call = [p \in Callers |-> IdleCall]
    /\ last = NoCall
    /\ prev = NoCall
    /\ ep = IdleEp
    /\ modelIn = <<>>
    /\ out = <<>>
    /\ wire = <<>>
    /\ uiChunks = 0
    /\ messages = <<>>
    /\ input = <<>>
    /\ isLoading = FALSE
    /\ ui = IdleUi
    /\ recv = <<>>
    /\ now = 0
    /\ workouts = {}
    /\ mut = IdleMut
    /\ togglingDate = NoDate
    /\ visitedDates = {}
    /\ pend = {}
    /\ deletingId = NoId
    /\ pendDel = [i \in {} |-> 0]
    /\ ansDel = [i \in {} |-> 0]
    /\ okDel = [i \in {} |-> 0]
    /\ listed = {}
    /\ stale = FALSE
    /\ clicks = 0
    /\ adding = IdleAdding
    /\ render = NoRender
    /\ \E t \in Todays :
          calc \in [fn : {"getWeekDates"}, pc : {"ready"}, today : {t}, at : {t},
                    tz : Zones, stz : Zones, dates : {<<>>},
                    range : {[from |-> 0, to |-> 0]}]

GridDatesNext ==
    \/ QueryWeek
    \/ \E d \in 0..MaxRenderDelay : RenderWeek(d)

\* the dates of the grid's cells and the range of the weekly query
SpecGridDates == GridDatesInit /\ [][GridDatesNext]_vars

(* C21: the grid's seven cells carry, in order, the calendar dates of Monday
   to Sunday of the current week (the week of the local calendar that
   contains the instant of the rendering), on every weekday and at every
   time of day, and these seven dates are exactly the dates of the range
   getWeeklyGymVisits queries. *)
C21_CellsAreMondayToSunday ==
    calc.pc = "returned" =>
        /\ \A i \in 1..7 : calc.dates[i] = LocalMonday(calc.at, calc.tz) + i - 1
        /\ {calc.dates[i] : i \in 1..7} = calc.range.from .. calc.range.to

\* the cells are Monday to Sunday when the rendering process runs in UTC
CellsAreMondayToSundayInUTC ==
    (calc.pc = "returned" /\ calc.tz = UTC) =>
        \A i \in 1..7 : calc.dates[i] = LocalMonday(calc.at, calc.tz) + i - 1

\* the cells are the queried range when both processes run in UTC and read
\* the clock in the same week
CellsAreQueriedRangeInUTC ==
    (/\ calc.pc = "returned" /\ calc.tz = UTC /\ calc.stz = UTC
     /\ LocalMonday(calc.today, UTC) = LocalMonday(calc.at, UTC)) =>
        {calc.dates[i] : i \in 1..7} = calc.range.from .. calc.range.to

\* in a zone that keeps one offset the cells carry seven consecutive dates
CellsAreConsecutive ==
    (calc.pc = "returned" /\ calc.tz.before = calc.tz.after) =>
        \A i \in 1..6 : calc.dates[i + 1] = calc.dates[i] + 1

----------------------------------------------------------------------------
(* Claims about the toggle and duplicate rows *)

\* a toggleGymVisit call is about to delete a row of date d: its lookup
\* found one, its delete has not been answered
DeletePending(d) ==
    \E p \in Callers : /\ call[p].pc = "write"
                       /\ call[p].op.kind = "delete"
                       /\ call[p].date = d

\* a lookup that yielded no row object made the call issue an insert
NoRowMeansInsert ==
    \A p \in Callers :
        (call[p].pc \in {"write", "done", "thrown"} /\ call[p].existing = NoRow)
        => call[p].op.kind = "insert"

(* C22, as stated: a lookup that yields no row object is taken as 'absent'
   and answered with an insert; and once two rows exist for a date, a
   toggleGymVisit call for that date made later (here: the most recent call,
   made when the table held two rows for its date) does not delete, and the
   date stays attended. *)
C22_LaterCallNeverRemoves ==
    /\ NoRowMeansInsert
    /\ (last.started /\ Cardinality(Matching(last.pre, last.date)) >= 2)
       => /\ call[last.caller].op.kind # "delete"
          /\ last.date \in DatesOf(rows)

(* C22, amended: a lookup that yields no row object is answered with an
   insert; and once two rows exist for a date while no call is about to
   delete a row of that date, this stays so for ever: no step removes a row
   of the date, and no call for the date gets to delete. *)
C22_TwoRowsStayWithoutPendingDelete ==
    /\ []NoRowMeansInsert
    /\ [][\A d \in DateSet :
            (Cardinality(Matching(rows, d)) >= 2 /\ ~DeletePending(d))
            => /\ Matching(rows, d) \subseteq Matching(rows', d)
               /\ ~DeletePending(d)']_vars

\* a date has three rows: with two rows there and no delete pending, a
\* further toggle of the date, whose lookup did not fail, inserted a third
C22_Witness_ThirdRowInserted ==
    \E p \in Callers :
        /\ call[p].pc = "done" /\ call[p].op.kind = "insert"
        /\ Cardinality(Matching(rows, call[p].date)) = 3
        /\ last.caller = p /\ last.nofail /\ last.solo
        /\ Cardinality(Matching(last.pre, last.date)) = 2

----------------------------------------------------------------------------
(* Claims about the grid's visited set and the store *)

OneToggleAtATime == Cardinality(pend) <= 1

\* the cell of date d is drawn visited iff the store holds a row for d
GridMatchesStore == visitedDates = DatesOf(rows)

\* the grid as it will be once every answered toggle has been taken over:
\* a toggle that returned flips its date, one that threw changes nothing
GridWhenSettled ==
    LET returned == {call[p].date : p \in {q \in pend : call[q].pc = "done"}}
    IN (visitedDates \ returned) \cup (returned \ visitedDates)

\* with one toggle at a time: the grid equals the store whenever no answered
\* toggle is waiting to be taken over, and will equal it once it is
GridFollowsStore == GridWhenSettled = DatesOf(rows)

(* C23: one client, the grid equal to the store at first, at most one toggle
   in flight at a time: after every completed handleToggle the grid's visited
   set equals the set of dates that have a row in the store (stepwise: a step
   that starts, advances or completes the only toggle in flight keeps the
   grid following the store); a toggle that returned flips its own date
   only, a toggle that threw leaves the visited set as it was. *)
C23_GridEqualsStoreAfterToggle ==
    [][/\ (OneToggleAtATime /\ OneToggleAtATime' /\ GridFollowsStore)
          => GridFollowsStore'
       /\ \A p \in pend \ pend' :
             visitedDates' = IF call[p].pc = "done"
                             THEN Flip(visitedDates, call[p].date)
                             ELSE visitedDates]_vars

\* what holds of the local set: only a completing handleToggle changes it, and
\* it flips exactly its own date when the call returned, nothing when it threw
LocalSetFlipsOnReturn ==
    [][/\ \A p \in pend \ pend' :
             visitedDates' = IF call[p].pc = "done"
                             THEN Flip(visitedDates, call[p].date)
                             ELSE visitedDates
       /\ pend \subseteq pend' => visitedDates' = visitedDates]_vars

\* what holds of grid and store: with one toggle at a time and no failed
\* lookup so far answered by an insert beside an existing row, the grid
\* follows the store
GridFollowsStoreWithoutDuplicates ==
    [][(/\ OneToggleAtATime /\ OneToggleAtATime' /\ GridFollowsStore
        /\ \A d \in DateSet : Cardinality(Matching(rows', d)) <= 1)
       => GridFollowsStore']_vars

----------------------------------------------------------------------------
(* Claims about the history of a chat request *)

\* an accepted submit: the request body holds the trimmed input as message
\* and, as history, the turn list as it stood before the submit
SubmitSendsEarlierTurns ==
    (ui'.running > ui.running) =>
        /\ ui'.body.history.kind = "array"
        /\ ui'.body.history.turns = messages
        /\ Len(ui'.body.history.turns) = Len(messages') - 2
        /\ ui'.body.message.text = messages'[Len(messages') - 1].content
        /\ messages'[Len(messages') - 1].role = "user"
        /\ messages'[Len(messages')] =
              [id |-> ui'.assistantId, role |-> "assistant", content |-> <<>>]

\* the endpoint takes the UI's request as the UI built it
RequestIsUiBody ==
    (ep.src = "ui" /\ ui.pc # "idle" /\ ui.sent) => ep.body = ui.body

\* the list given to the model for a UI request: after the system prompt one
\* element per history turn, then the request's message, once, as the last
ModelGetsMessageOnceLast ==
    (ep.src = "ui" /\ ep.invoked) =>
        LET h == ep.body.history.turns IN
        /\ Len(ep.llm) = Len(h) + 2
        /\ \A i \in 1..Len(h) : /\ ep.llm[i + 1].role = h[i].role
                                 /\ ep.llm[i + 1].content = h[i].content
        /\ ep.llm[Len(h) + 2] =
              [role |-> "user", content |-> ep.body.message.text]

(* C24: the history the chat UI sends with a submit is the turn list as it
   stood before that submit: every earlier turn (an assistant turn holding
   the apology text included), and neither the user turn just appended nor
   the new empty placeholder; so in the list the endpoint gives the model
   the turns after the system prompt are the earlier turns, followed by the
   current user message, once, as the last element. *)
C24_HistoryIsTurnsBeforeSubmit ==
    /\ [][SubmitSendsEarlierTurns]_vars
    /\ []RequestIsUiBody
    /\ []ModelGetsMessageOnceLast

\* the model is called for the second submit, made after the first one
\* had failed: the history is that submit's user turn and the apology turn
C24_Witness_ApologyInHistory ==
    /\ ep.src = "ui" /\ ep.invoked /\ ui.sent /\ ui.pc # "idle"
    /\ Len(messages) = 4
    /\ Len(ep.body.history.turns) = 2
    /\ ep.body.history.turns[1].role = "user"
    /\ ep.body.history.turns[2].role = "assistant"
    /\ ep.body.history.turns[2].content = Apology
    /\ Len(ep.llm) = 4

----------------------------------------------------------------------------
(* Claims about texts that follow the system prompt's exercise template *)

\* the block is written as the prompt's template says: a bold name, "Sets:"
\* and "Reps:" each with an integer, "Weight:" followed by guidance in words
\* (which may mention a number further on), not by a number
FollowsTemplate(b) ==
    /\ \E j \in 1..Len(b.name) : b.name[j] # " "
    /\ b.sets.kind = "int" /\ b.reps.kind = "int"
    /\ b.weight.kind \in {"words", "apart"}

(* C25: for an exercise that the assistant text writes as the system
   prompt's template says (bold name, integer Sets and Reps, the Weight
   label followed by guidance in words instead of a number) the extractor
   emits no suggestion: there are at most as many suggestions as blocks that
   do not follow the template, and a text all of whose blocks follow it gets
   none, so no quick-add action is offered for it. *)
C25_TemplateBlockGetsNoSuggestion ==
    calc.pc = "returned" =>
        LET others == {i \in 1..Len(calc.blocks) : ~FollowsTemplate(calc.blocks[i])}
        IN /\ Len(calc.result) <= Cardinality(others)
           /\ others = {} => calc.result = <<>>

\* a text of two blocks: the first follows the template and its guidance
\* mentions a number, the second states a literal weight; only the second
\* is suggested
C25_Witness_TemplateBesideLiteral ==
    /\ calc.pc = "returned"
    /\ Len(calc.blocks) = 2
    /\ FollowsTemplate(calc.blocks[1]) /\ calc.blocks[1].weight.kind = "apart"
    /\ calc.blocks[2].weight.kind = "int"
    /\ Len(calc.result) = 1
    /\ calc.result[1].weight = calc.blocks[2].weight.value

====
